---------------------------- MODULE Spec2Model ----------------------------
(***************************************************************************)
(* Model of the analytics pipeline of src/server.js: product attribution   *)
(* (extractProductFromUTM, getAttributedProduct), the predictive           *)
(* RTO / cancellation rates (calculatePredictiveRates) and the per-SKU     *)
(* aggregation (processOrders).                                            *)
(*                                                                         *)
(* Representation.                                                         *)
(*  - A JavaScript string is a sequence of characters, so that             *)
(*    toLowerCase, split(..)[0], trim and replace are computed.            *)
(*  - A JavaScript number is an exact rational [n, d] in lowest terms with *)
(*    d > 0; [n |-> 0, d |-> 0] is NaN.  Floating-point rounding is not    *)
(*    modelled.                                                            *)
(*  - null / undefined is a value of the same shape as the values it       *)
(*    replaces (NoString, NoAmount, a record with present = FALSE).        *)
(***************************************************************************)
EXTENDS Integers, Sequences, FiniteSets, TLC

-----------------------------------------------------------------------------
(* Bounds of the model.                                                    *)

\* number of getAttributedProduct calls in one behaviour
MaxCalls == 3
\* number of orders in the batch given to processOrders
MaxBatch == 3
\* number of historical orders given to calculatePredictiveRates
MaxHist == 3
\* number of historical orders of the one-product cohort
MaxCohort == 10
\* the most analytics requests of a run
MaxRequests == 2
\* the most moves of the clock in a run
MaxTicks == 2
\* how often the analytics computation is run on the same inputs
MaxRuns == 2

-----------------------------------------------------------------------------
(* Numbers.                                                                *)

RECURSIVE GCD(_, _)
GCD(a, b) == IF b = 0 THEN a ELSE GCD(b, a % b)

Abs(x) == IF x < 0 THEN -x ELSE x

NaN == [n |-> 0, d |-> 0]
IsNaN(x) == x.d = 0

\* the number nn/dd (dd # 0) in lowest terms
Rat(nn, dd) ==
  LET g == GCD(Abs(nn), Abs(dd))
      s == IF dd < 0 THEN -1 ELSE 1
  IN  [n |-> s * (nn \div g), d |-> s * (dd \div g)]

Num(k) == [n |-> k, d |-> 1]
Zero == Num(0)

RAdd(a, b) == IF IsNaN(a) \/ IsNaN(b) THEN NaN
              ELSE Rat(a.n * b.d + b.n * a.d, a.d * b.d)
RMul(a, b) == IF IsNaN(a) \/ IsNaN(b) THEN NaN
              ELSE Rat(a.n * b.n, a.d * b.d)
\* a / b.  Every amount of the model is >= 0 and a divisor 0 only meets a
\* dividend 0 (0 / 0 is NaN), so Infinity does not arise.
RDiv(a, b) == IF IsNaN(a) \/ IsNaN(b) \/ b.n = 0 THEN NaN
              ELSE Rat(a.n * b.d, a.d * b.n)
\* a > b; every comparison with NaN is false
RGt(a, b) == /\ ~IsNaN(a)
             /\ ~IsNaN(b)
             /\ a.n * b.d > b.n * a.d
\* JavaScript truthiness of a number: 0 and NaN are falsy
NumTruthy(a) == ~IsNaN(a) /\ a.n # 0

\* a missing amount (undefined)
NoAmount == << >>

\* parseFloat of a decimal amount string "r.pp", held as <<r, pp>>
parseFloat(s) == IF s = NoAmount THEN NaN ELSE Rat(100 * s[1] + s[2], 100)

-----------------------------------------------------------------------------
(* Strings.                                                                *)

UpperCase ==
  << "A", "B", "C", "D", "E", "F", "G", "H", "I", "J", "K", "L", "M",
     "N", "O", "P", "Q", "R", "S", "T", "U", "V", "W", "X", "Y", "Z" >>
LowerCase ==
  << "a", "b", "c", "d", "e", "f", "g", "h", "i", "j", "k", "l", "m",
     "n", "o", "p", "q", "r", "s", "t", "u", "v", "w", "x", "y", "z" >>

toLowerCase1(c) ==
  IF \E i \in 1..Len(UpperCase) : UpperCase[i] = c
  THEN LowerCase[CHOOSE i \in 1..Len(UpperCase) : UpperCase[i] = c]
  ELSE c

toLowerCase(s) == [i \in 1..Len(s) |-> toLowerCase1(s[i])]

\* s.split(sep)[0]: the part of s before the first sep, all of s without one
SplitFirst(s, sep) ==
  IF \E i \in 1..Len(s) : s[i] = sep
  THEN LET k == CHOOSE i \in 1..Len(s) :
                  /\ s[i] = sep
                  /\ \A j \in 1..(i - 1) : s[j] # sep
       IN  SubSeq(s, 1, k - 1)
  ELSE s

\* s.trim()
trim(s) ==
  IF \A i \in 1..Len(s) : s[i] = " "
  THEN << >>
  ELSE LET lo == CHOOSE i \in 1..Len(s) :
                   /\ s[i] # " "
                   /\ \A j \in 1..(i - 1) : s[j] = " "
           hi == CHOOSE i \in 1..Len(s) :
                   /\ s[i] # " "
                   /\ \A j \in (i + 1)..Len(s) : s[j] = " "
       IN  SubSeq(s, lo, hi)

\* null / undefined where a string is expected
NoString == <<"(null)">>

\* JavaScript truthiness of a string-or-null value
Truthy(v) == v # NoString /\ v # << >>

\* the trademark sign and the en dash, each one character of a string
TM == "(tm)"
EnDash == "(en-dash)"

\* name.toLowerCase().split(TM)[0].split(EnDash)[0].trim()
ProductKey(name) ==
  trim(SplitFirst(SplitFirst(toLowerCase(name), TM), EnDash))

-----------------------------------------------------------------------------
(* Orders.                                                                 *)

Item(nm, sk, vid, pr, q) ==
  [name |-> nm, sku |-> sk, variant_id |-> vid, price |-> pr, quantity |-> q]

\* line item names "W", "w(tm)x", "G (en-dash)x" and "(tm)w": product keys
\* "w", "w", "g" and ""
NameW == <<"W">>
NameWtm == <<"w", TM, "x">>
NameG == <<"G", " ", EnDash, "x">>
NameTm == <<TM, "w">>

iW55 == Item(NameW, <<"S1">>, <<"V1">>, <<55, 0>>, 1)
iG45 == Item(NameG, <<"S2">>, <<"V2">>, <<45, 0>>, 1)
iw45 == Item(NameWtm, <<"S1">>, <<"V1">>, <<22, 50>>, 2)
iW80 == Item(NameW, <<"S1">>, <<"V1">>, <<80, 0>>, 1)
iG20 == Item(NameG, <<"S2">>, <<"V2">>, <<20, 0>>, 1)
iW300 == Item(NameW, <<"S1">>, <<"V1">>, <<300, 0>>, 1)
iG200 == Item(NameG, <<"S2">>, <<"V2">>, <<200, 0>>, 1)
iT45 == Item(NameTm, << >>, <<"V9">>, <<45, 0>>, 1)
iT0 == Item(NameTm, << >>, <<"V9">>, <<0, 0>>, 1)
iW0 == Item(NameW, NoString, NoString, <<0, 0>>, 2)

\* a line item named "Wx" under a third SKU: product key "wx"
NameWx == <<"W", "x">>
iX30 == Item(NameWx, <<"S3">>, <<"V3">>, <<30, 0>>, 1)

\* the line-item lists of the orders: none, one item, two and three items
\* with a majority bucket, with tied buckets, with one bucket, with no
\* revenue at all
ItemLists ==
  { << >>, <<iW55>>, <<iT0>>, <<iG45>>,
    <<iW80, iG20>>, <<iW55, iG45>>, <<iG45, iw45>>, <<iW55, iw45>>,
    <<iT0, iW0>>, <<iW300, iG200>>, <<iT45, iG20>>,
    <<iW55, iG45, iw45>>, <<iG45, iw45, iT0>>, <<iw45, iG45, iT45>> }

\* landing_site as new URL() and searchParams.get('utm_campaign') see it:
\* absent, not parseable as an absolute URL, or parseable with or without a
\* utm_campaign parameter
Landing(pr, ok, utm) == [present |-> pr, parses |-> ok, utm_campaign |-> utm]

NoLanding == Landing(FALSE, FALSE, NoString)
BadLanding == Landing(TRUE, FALSE, NoString)
PlainLanding == Landing(TRUE, TRUE, NoString)

\* utm_campaign values: "W_x", " G _x", "_x", "" and "wx"
UtmCampaigns == { <<"W", "_", "x">>, <<" ", "G", " ", "_", "x">>,
                  <<"_", "x">>, << >>, <<"w", "x">> }

Landings == {NoLanding, BadLanding, PlainLanding}
              \cup {Landing(TRUE, TRUE, u) : u \in UtmCampaigns}

\* all sequences over S of length 0..k
RECURSIVE SeqsUpTo(_, _)
SeqsUpTo(S, k) ==
  IF k = 0 THEN { << >> }
  ELSE LET shorter == SeqsUpTo(S, k - 1)
       IN  shorter \cup {Append(q, x) : q \in shorter, x \in S}

-----------------------------------------------------------------------------
(* extractProductFromUTM and getAttributedProduct.                         *)

\* new URL(landingPageUrl) followed by url.searchParams.get('utm_campaign'):
\* throws on a string that is no absolute URL
NewURL(landingPageUrl) ==
  [threw |-> ~landingPageUrl.parses,
   utm_campaign |-> landingPageUrl.utm_campaign]

Exception == <<"(exception)">>

\* extractProductFromUTM without trim() and toLowerCase()
extractProductFromUTMRaw(landingPageUrl) ==
  IF ~landingPageUrl.present THEN NoString
  ELSE LET url == NewURL(landingPageUrl)
       IN  IF url.threw THEN NoString
           ELSE IF Truthy(url.utm_campaign)
                THEN SplitFirst(url.utm_campaign, "_")
                ELSE NoString

extractProductFromUTM(landingPageUrl) ==
  IF ~landingPageUrl.present THEN NoString
  ELSE LET url == NewURL(landingPageUrl)
       IN  IF url.threw THEN NoString              \* catch (e)
           ELSE IF Truthy(url.utm_campaign)
                THEN toLowerCase(trim(SplitFirst(url.utm_campaign, "_")))
                ELSE NoString

\* parseFloat(item.price) * item.quantity
ItemRevenue(item) == RMul(parseFloat(item.price), Num(item.quantity))

\* revenueMap is the object's entries in insertion order
HasKey(map, k) == \E i \in 1..Len(map) : map[i].key = k
ValueOf(map, k) == map[CHOOSE i \in 1..Len(map) : map[i].key = k].value

\* revenueMap[productKey] = (revenueMap[productKey] || 0) + itemRevenue
AddRevenue(map, k, rev) ==
  IF HasKey(map, k)
  THEN [i \in 1..Len(map) |->
          IF map[i].key = k
          THEN [key |-> k,
                value |-> RAdd(IF NumTruthy(map[i].value)
                               THEN map[i].value ELSE Zero, rev)]
          ELSE map[i]]
  ELSE Append(map, [key |-> k, value |-> RAdd(Zero, rev)])

\* lineItems.forEach(item => ...) from item i on
RECURSIVE FillRevenueMap(_, _, _)
FillRevenueMap(map, lineItems, i) ==
  IF i > Len(lineItems) THEN map
  ELSE FillRevenueMap(
         AddRevenue(map, ProductKey(lineItems[i].name),
                    ItemRevenue(lineItems[i])),
         lineItems, i + 1)

\* Array.prototype.sort((a, b) => b[1] - a[1]) is stable: e goes behind
\* every entry that is not smaller
RECURSIVE InsertDesc(_, _)
InsertDesc(sorted, e) ==
  IF sorted = << >> THEN <<e>>
  ELSE IF RGt(e.value, Head(sorted).value)
       THEN <<e>> \o sorted
       ELSE <<Head(sorted)>> \o InsertDesc(Tail(sorted), e)

RECURSIVE SortDesc(_, _)
SortDesc(entries, i) ==
  IF i = 0 THEN << >>
  ELSE InsertDesc(SortDesc(entries, i - 1), entries[i])

\* Object.values(revenueMap).reduce((a, b) => a + b, 0)
RECURSIVE SumValues(_, _)
SumValues(map, i) ==
  IF i = 0 THEN Zero ELSE RAdd(SumValues(map, i - 1), map[i].value)

Half == Rat(1, 2)

\* topRevenue / totalRevenue >= 0.5 instead of > 0.5
AtLeastHalf(topRevenue, totalRevenue) ==
  LET share == RDiv(topRevenue, totalRevenue)
  IN  RGt(share, Half) \/ share = Half

\* topRevenue / totalRevenue > 0.5
ExceedsHalf(topRevenue, totalRevenue) ==
  RGt(RDiv(topRevenue, totalRevenue), Half)

\* a revenueMap that outlives the call
KeptRevenueMap(previous) == previous

\* const revenueMap = {}: a fresh object in every call, whatever the
\* previous call left behind
NewRevenueMap(previous) == << >>

\* one call: its result and the revenueMap it built (previous: the map of
\* the call before; a call that builds no map leaves none)
AttributeCall(order, previous) ==
  LET utmProduct == extractProductFromUTM(order.landing_site)
      lineItems == order.line_items
  IN  IF utmProduct = Exception
      THEN [result |-> Exception, revenueMap |-> << >>]
      ELSE IF Truthy(utmProduct)
      THEN [result |-> utmProduct, revenueMap |-> << >>]
      ELSE IF Len(lineItems) = 1
      THEN [result |-> ProductKey(lineItems[1].name),
            revenueMap |-> << >>]
      ELSE IF Len(lineItems) > 1
      THEN LET revenueMap ==
                 FillRevenueMap(NewRevenueMap(previous), lineItems, 1)
               sorted == SortDesc(revenueMap, Len(revenueMap))
               topProduct == sorted[1]
               topRevenue == topProduct.value
               totalRevenue == SumValues(revenueMap, Len(revenueMap))
           IN  [result |-> IF ExceedsHalf(topRevenue, totalRevenue)
                           THEN topProduct.key ELSE NoString,
                revenueMap |-> revenueMap]
      ELSE [result |-> NoString, revenueMap |-> << >>]

getAttributedProduct(order) == AttributeCall(order, << >>).result

-----------------------------------------------------------------------------
(* Orders of the commerce platform.                                        *)

Order(id, nm, num, gws, tot, land, items, created) ==
  [id |-> id, name |-> nm, order_number |-> num,
   payment_gateway_names |-> gws, total_price |-> tot,
   landing_site |-> land, line_items |-> items, created_at |-> created]

GwCOD == <<"C", "O", "D">>
GwCash == <<"C", "a", "s", "h", " ", "o", "n", " ",
            "D", "e", "l", "i", "v", "e", "r", "y">>
GwCard == <<"c", "a", "r", "d">>

\* no order yet
NoOrder == Order(0, NoString, NoString, << >>, NoAmount, NoLanding, << >>, 0)

\* the orders getAttributedProduct is called on: every line-item list
\* without a utm_campaign, and every landing_site with no, one, two tied
\* and two untied line items
AttrOrders ==
  { Order(1, <<"#", "1">>, <<"1">>, <<GwCOD>>, <<100, 0>>, l, li, 0) :
      l \in {NoLanding, BadLanding, PlainLanding}, li \in ItemLists }
  \cup
  { Order(1, <<"#", "1">>, <<"1">>, <<GwCOD>>, <<100, 0>>, l, li, 0) :
      l \in Landings,
      li \in { << >>, <<iG45>>, <<iG45, iw45>>, <<iW55, iG45>> } }

-----------------------------------------------------------------------------
(* processOrders: the computations of one iteration.                       *)

\* s.includes(sub)
Includes(s, sub) ==
  \E i \in 0..(Len(s) - Len(sub)) :
    \A j \in 1..Len(sub) : s[i + j] = sub[j]

\* s.startsWith(prefix)
StartsWith(s, prefix) ==
  /\ Len(prefix) <= Len(s)
  /\ \A j \in 1..Len(prefix) : s[j] = prefix[j]

StrCod == <<"c", "o", "d">>
StrCashOnDelivery == <<"c", "a", "s", "h", " ", "o", "n", " ",
                       "d", "e", "l", "i", "v", "e", "r", "y">>

\* order.payment_gateway_names?.some(gw => gw.toLowerCase().includes('cod')
\*   || gw.toLowerCase().includes('cash on delivery'))
isCOD(order) ==
  \E i \in 1..Len(order.payment_gateway_names) :
    LET gw == toLowerCase(order.payment_gateway_names[i])
    IN  Includes(gw, StrCod) \/ Includes(gw, StrCashOnDelivery)

\* parseFloat(order.total_price || 0)
OrderTotal(order) ==
  IF order.total_price = NoAmount THEN Zero
  ELSE parseFloat(order.total_price)

\* str.replace('#', ''): the first '#' removed
RemoveHash(str) ==
  IF \E i \in 1..Len(str) : str[i] = "#"
  THEN LET k == CHOOSE i \in 1..Len(str) :
                  /\ str[i] = "#"
                  /\ \A j \in 1..(i - 1) : str[j] # "#"
       IN  SubSeq(str, 1, k - 1) \o SubSeq(str, k + 1, Len(str))
  ELSE str

\* order.name?.replace('#', '') || order.order_number
OrderNumber(order) ==
  LET n == IF order.name = NoString THEN NoString ELSE RemoveHash(order.name)
  IN  IF Truthy(n) THEN n ELSE order.order_number

StatusUnknown == <<"unknown">>
StatusDelivered == <<"delivered">>
StatusRto == <<"rto">>
StatusCancelled == <<"cancelled">>
StatusInTransit == <<"in_transit">>
StatusPending == <<"pending">>

\* shiprocketStatuses[orderNumber] || 'unknown'
ShiprocketStatus(order, shiprocketStatuses) ==
  LET orderNumber == OrderNumber(order)
  IN  IF orderNumber \in DOMAIN shiprocketStatuses
         /\ Truthy(shiprocketStatuses[orderNumber])
      THEN shiprocketStatuses[orderNumber]
      ELSE StatusUnknown

\* order.line_items?.reduce((sum, item) =>
\*   sum + (parseFloat(item.price) * item.quantity), 0)
RECURSIVE SumSubtotals(_, _)
SumSubtotals(lineItems, i) ==
  IF i = 0 THEN Zero
  ELSE RAdd(SumSubtotals(lineItems, i - 1), ItemRevenue(lineItems[i]))

\* ... || 1
ItemsTotal(order) ==
  LET sum == SumSubtotals(order.line_items, Len(order.line_items))
  IN  IF NumTruthy(sum) THEN sum ELSE Num(1)

\* seenOrders.has(order.id) that never finds the id
NeverSeen(seenOrders, id) == FALSE

\* seenOrders.has(order.id)
AlreadySeen(seenOrders, id) == id \in seenOrders

\* manualReviewCount++ for every order
ReviewEvery(manualReviewCount, attributedProduct) == manualReviewCount + 1

\* else { manualReviewCount++ }
ReviewUpdate(manualReviewCount, attributedProduct) ==
  IF Truthy(attributedProduct) THEN manualReviewCount
  ELSE manualReviewCount + 1

\* productAttributionMap[attributedProduct].orders++ (and codOrders++)
AttributionUpdate(productAttributionMap, attributedProduct, cod) ==
  IF Truthy(attributedProduct)
  THEN LET old == IF attributedProduct \in DOMAIN productAttributionMap
                  THEN productAttributionMap[attributedProduct]
                  ELSE [orders |-> 0, codOrders |-> 0]
       IN  (attributedProduct :>
              [orders |-> old.orders + 1,
               codOrders |-> IF cod THEN old.codOrders + 1
                             ELSE old.codOrders])
           @@ productAttributionMap
  ELSE productAttributionMap

SkuUnknown == <<"unknown">>

\* item.sku || item.variant_id || 'unknown'
SkuOf(item) ==
  IF Truthy(item.sku) THEN item.sku
  ELSE IF Truthy(item.variant_id) THEN item.variant_id
  ELSE SkuUnknown

\* skuData[sku] = { sku, productName: item.name, codRevenue: 0, ... }
NewSku(sku, item) ==
  [sku |-> sku, productName |-> item.name,
   codRevenue |-> Zero, prepaidRevenue |-> Zero, totalRevenue |-> Zero,
   codOrders |-> 0, prepaidOrders |-> 0,
   codOrderIds |-> {}, prepaidOrderIds |-> {},
   deliveredOrders |-> 0, rtoOrders |-> 0, cancelledOrders |-> 0,
   inTransitOrders |-> 0]

\* the counts raised for every line item, the id sets never consulted
CountOrderPerItem(rec, id, cod, shiprocketStatus) ==
  IF cod
  THEN [rec EXCEPT
          !.codOrderIds = @ \cup {id},
          !.codOrders = @ + 1,
          !.deliveredOrders =
             IF shiprocketStatus = <<"delivered">> THEN @ + 1 ELSE @,
          !.rtoOrders =
             IF shiprocketStatus = <<"rto">> THEN @ + 1 ELSE @,
          !.cancelledOrders =
             IF shiprocketStatus = <<"cancelled">> THEN @ + 1 ELSE @,
          !.inTransitOrders =
             IF shiprocketStatus = <<"in_transit">> THEN @ + 1 ELSE @]
  ELSE [rec EXCEPT
          !.prepaidOrderIds = @ \cup {id},
          !.prepaidOrders = @ + 1,
          !.deliveredOrders =
             IF shiprocketStatus = <<"delivered">> THEN @ + 1 ELSE @]

\* the order counted once per id, its shipment outcome for every line item
CountOutcomePerItem(rec, id, cod, shiprocketStatus) ==
  LET counted ==
        IF cod /\ id \notin rec.codOrderIds
        THEN [rec EXCEPT !.codOrderIds = @ \cup {id}, !.codOrders = @ + 1]
        ELSE IF ~cod /\ id \notin rec.prepaidOrderIds
        THEN [rec EXCEPT !.prepaidOrderIds = @ \cup {id},
                         !.prepaidOrders = @ + 1]
        ELSE rec
  IN  [counted EXCEPT
         !.deliveredOrders =
            IF shiprocketStatus = <<"delivered">> THEN @ + 1 ELSE @,
         !.rtoOrders =
            IF cod /\ shiprocketStatus = <<"rto">> THEN @ + 1 ELSE @,
         !.cancelledOrders =
            IF cod /\ shiprocketStatus = <<"cancelled">> THEN @ + 1 ELSE @,
         !.inTransitOrders =
            IF cod /\ shiprocketStatus = <<"in_transit">> THEN @ + 1 ELSE @]

\* the per-order counts of one SKU bucket (lines 458-472)
CountOrder(rec, id, cod, shiprocketStatus) ==
  IF cod /\ id \notin rec.codOrderIds
  THEN [rec EXCEPT
          !.codOrderIds = @ \cup {id},
          !.codOrders = @ + 1,
          !.deliveredOrders =
             IF shiprocketStatus = StatusDelivered THEN @ + 1 ELSE @,
          !.rtoOrders =
             IF shiprocketStatus = StatusRto THEN @ + 1 ELSE @,
          !.cancelledOrders =
             IF shiprocketStatus = StatusCancelled THEN @ + 1 ELSE @,
          !.inTransitOrders =
             IF shiprocketStatus = StatusInTransit THEN @ + 1 ELSE @]
  ELSE IF ~cod /\ id \notin rec.prepaidOrderIds
  THEN [rec EXCEPT
          !.prepaidOrderIds = @ \cup {id},
          !.prepaidOrders = @ + 1,
          !.deliveredOrders =
             IF shiprocketStatus = StatusDelivered THEN @ + 1 ELSE @]
  ELSE rec

\* the item's subtotal taken as its revenue, without the proportional split
SkuRevenueUnsplit(orderTotal, itemSubtotal, itemsTotal) == itemSubtotal

\* proportion = itemSubtotal / itemsTotal; skuRevenue = orderTotal * proportion
SkuRevenue(orderTotal, itemSubtotal, itemsTotal) ==
  RMul(orderTotal, RDiv(itemSubtotal, itemsTotal))

\* the revenue added to the payment class only, totalRevenue left alone
AddSkuRevenueNoTotal(rec, cod, skuRevenue) ==
  IF cod THEN [rec EXCEPT !.codRevenue = RAdd(@, skuRevenue)]
  ELSE [rec EXCEPT !.prepaidRevenue = RAdd(@, skuRevenue)]

\* lines 478-484
AddSkuRevenue(rec, cod, skuRevenue) ==
  IF cod THEN [rec EXCEPT !.codRevenue = RAdd(@, skuRevenue),
                          !.totalRevenue = RAdd(@, skuRevenue)]
  ELSE [rec EXCEPT !.prepaidRevenue = RAdd(@, skuRevenue),
                   !.totalRevenue = RAdd(@, skuRevenue)]

\* one iteration of order.line_items?.forEach(item => ...)
ItemStep(skuData, order, item, shiprocketStatuses) ==
  LET sku == SkuOf(item)
      rec0 == IF sku \in DOMAIN skuData THEN skuData[sku]
              ELSE NewSku(sku, item)
      rec1 == CountOrder(rec0, order.id, isCOD(order),
                         ShiprocketStatus(order, shiprocketStatuses))
      skuRevenue == SkuRevenue(OrderTotal(order), ItemRevenue(item),
                               ItemsTotal(order))
  IN  (sku :> AddSkuRevenue(rec1, isCOD(order), skuRevenue)) @@ skuData

-----------------------------------------------------------------------------
(* processOrders: the SKU records of the result (lines 488-525).           *)

\* the sum of f[x] over x in S, f a map to numbers
RECURSIVE SumOver(_, _)
SumOver(f, S) ==
  IF S = {} THEN Zero
  ELSE LET x == CHOOSE y \in S : TRUE
       IN  RAdd(f[x], SumOver(f, S \ {x}))

\* the spend of the campaign named exactly as the product, no prefix match
AdSpendExactMatch(productKey, adSpendByProduct) ==
  SumOver(adSpendByProduct,
          {c \in DOMAIN adSpendByProduct : productKey = c})

\* for (const [campaignName, spend] of Object.entries(adSpendByProduct))
\*   if (productKey.startsWith(campaignName)) adSpend += spend
AdSpendOf(productKey, adSpendByProduct) ==
  SumOver(adSpendByProduct,
          {c \in DOMAIN adSpendByProduct : StartsWith(productKey, c)})

NoRates == [predictiveRTO |-> Zero, predictiveCancel |-> Zero]

SkuOutput(sku, adSpendByProduct, productAttributionMap, predictiveRates) ==
  LET productKey == ProductKey(sku.productName)
      adSpend == AdSpendOf(productKey, adSpendByProduct)
      attributedOrders ==
        IF productKey \in DOMAIN productAttributionMap
        THEN productAttributionMap[productKey].orders ELSE 0
      cac == IF attributedOrders > 0
             THEN RDiv(adSpend, Num(attributedOrders)) ELSE Zero
      rates == IF productKey \in DOMAIN predictiveRates
               THEN predictiveRates[productKey] ELSE NoRates
  IN  [sku |-> sku.sku, productName |-> sku.productName,
       codRevenue |-> sku.codRevenue,
       prepaidRevenue |-> sku.prepaidRevenue,
       totalRevenue |-> sku.totalRevenue,
       codOrders |-> sku.codOrders,
       prepaidOrders |-> sku.prepaidOrders,
       totalOrders |-> sku.codOrders + sku.prepaidOrders,
       adSpend |-> adSpend,
       attributedOrders |-> attributedOrders,
       cac |-> cac,
       deliveredOrders |-> sku.deliveredOrders,
       rtoOrders |-> sku.rtoOrders,
       cancelledOrders |-> sku.cancelledOrders,
       inTransitOrders |-> sku.inTransitOrders,
       predictiveRTO |-> rates.predictiveRTO,
       predictiveCancel |-> rates.predictiveCancel]

\* the result before processOrders has returned
NoAnalytics ==
  [totalOrders |-> 0, totalCODOrders |-> 0, totalPrepaidOrders |-> 0,
   totalRevenue |-> Zero, manualReviewCount |-> 0, skus |-> << >>]

-----------------------------------------------------------------------------
(* processOrders as one call, as the request handler makes it.             *)

\* a seenOrders that outlives the call
KeptSeenOrders(previous) == previous

\* const seenOrders = new Set(): a fresh set in every call, whatever the
\* call before left behind (line 399)
NewSeenOrders(previous) == {}

\* const skuData = {}, const productAttributionMap = {} and
\* const productRates = {}: a fresh object in every call (lines 393, 394,
\* 326)
NewObject(previous) == << >>

\* let codCount = 0, prepaidCount = 0, manualReviewCount = 0
\* (lines 395, 396, 400)
NewCount(previous) == 0

\* let codRevenue = 0, prepaidRevenue = 0 (lines 397, 398)
NewRevenue(previous) == Zero

\* the locals of processOrders (lines 393-400)
ProcLocals ==
  [seenOrders |-> {}, codCount |-> 0, prepaidCount |-> 0,
   codRevenue |-> Zero, prepaidRevenue |-> Zero, manualReviewCount |-> 0,
   productAttributionMap |-> << >>, skuData |-> << >>]

\* order.line_items?.forEach(item => { ... }) from item j on
RECURSIVE ItemsFrom(_, _, _, _)
ItemsFrom(skuData, order, shiprocketStatuses, j) ==
  IF j > Len(order.line_items) THEN skuData
  ELSE ItemsFrom(ItemStep(skuData, order, order.line_items[j],
                          shiprocketStatuses),
                 order, shiprocketStatuses, j + 1)

\* one iteration of orders.forEach(order => { ... }) (lines 402-486)
OrderStep(loc, order, shiprocketStatuses) ==
  LET cod == isCOD(order)
      seen == AlreadySeen(loc.seenOrders, order.id)
      attributedProduct == getAttributedProduct(order)
  IN  [seenOrders |-> loc.seenOrders \cup {order.id},
       codCount |-> IF ~seen /\ cod THEN loc.codCount + 1
                    ELSE loc.codCount,
       codRevenue |-> IF ~seen /\ cod
                      THEN RAdd(loc.codRevenue, OrderTotal(order))
                      ELSE loc.codRevenue,
       prepaidCount |-> IF ~seen /\ ~cod THEN loc.prepaidCount + 1
                        ELSE loc.prepaidCount,
       prepaidRevenue |-> IF ~seen /\ ~cod
                          THEN RAdd(loc.prepaidRevenue, OrderTotal(order))
                          ELSE loc.prepaidRevenue,
       productAttributionMap |->
         AttributionUpdate(loc.productAttributionMap, attributedProduct,
                           cod),
       manualReviewCount |->
         ReviewUpdate(loc.manualReviewCount, attributedProduct),
       skuData |-> ItemsFrom(loc.skuData, order, shiprocketStatuses, 1)]

RECURSIVE OrdersFrom(_, _, _, _)
OrdersFrom(loc, orders, shiprocketStatuses, i) ==
  IF i > Len(orders) THEN loc
  ELSE OrdersFrom(OrderStep(loc, orders[i], shiprocketStatuses),
                  orders, shiprocketStatuses, i + 1)

\* processOrders(orders, adSpendByProduct, shiprocketStatuses,
\* predictiveRates) (lines 392-535)
processOrders(orders, adSpend, shiprocketStatuses, predRates) ==
  LET loc == OrdersFrom(ProcLocals, orders, shiprocketStatuses, 1)
  IN  [totalOrders |-> Len(orders),
       totalCODOrders |-> loc.codCount,
       totalPrepaidOrders |-> loc.prepaidCount,
       totalRevenue |-> RAdd(loc.codRevenue, loc.prepaidRevenue),
       manualReviewCount |-> loc.manualReviewCount,
       skus |-> [k \in DOMAIN loc.skuData |->
                   SkuOutput(loc.skuData[k], adSpend,
                             loc.productAttributionMap, predRates)]]

-----------------------------------------------------------------------------
(* Dates.  An instant is a number of half hours since day 0, 00:00 UTC; a  *)
(* calendar date string 'YYYY-MM-DD' is its day number, so that comparing  *)
(* two date strings is comparing two day numbers.                          *)

HalfHoursPerDay == 48
\* Asia/Kolkata is UTC+05:30
ISTOffset == 11
\* 86400000 ms
DayMs == HalfHoursPerDay

\* new Date(t).toLocaleDateString('en-CA', { timeZone: 'Asia/Kolkata' })
ISTDate(t) == (t + ISTOffset) \div HalfHoursPerDay

\* new Date('YYYY-MM-DD'): midnight UTC of that day
DateObj(day) == day * HalfHoursPerDay

\* date.toISOString().split('T')[0]: the UTC day
ISODate(t) == t \div HalfHoursPerDay

\* targetDate of the request (lines 267-271)
TargetDate(now, date) ==
  LET todayIST == ISTDate(now)
      yesterdayIST == ISTDate(now - DayMs)
  IN  IF date = "today" THEN todayIST ELSE yesterdayIST

\* the four window bounds of the request (lines 280-290)
RtoDaysBack == 14
RtoDaysUntil == 7
CancelDaysBack == 7
CancelDaysUntil == 1

RtoStartStr(targetDate) == ISODate(DateObj(targetDate) - RtoDaysBack * DayMs)
RtoEndStr(targetDate) == ISODate(DateObj(targetDate) - RtoDaysUntil * DayMs)
CancelStartStr(targetDate) ==
  ISODate(DateObj(targetDate) - CancelDaysBack * DayMs)
CancelEndStr(targetDate) ==
  ISODate(DateObj(targetDate) - CancelDaysUntil * DayMs)

-----------------------------------------------------------------------------
(* calculatePredictiveRates: one iteration and the rates.                  *)

\* a shipment record of shiprocketMap (lines 300-304); a pickup timestamp
\* 'YYYY-MM-DD HH:MM:SS' is <<day, half hour of the day>>
Shipment(st, main, pickup) ==
  [status |-> st, mainStatus |-> main, pickupTimestamp |-> pickup]

\* no status code, no pickup timestamp (undefined / null)
NoStatus == 0
NoPickup == << >>
\* '0000-00-00 00:00:00'
SentinelPickup == <<0, 0>>

CodeDelivered == 6
CodeDeliveredToo == 7
CodeCancelled == 8

StrCanceled == <<"c", "a", "n", "c", "e", "l", "e", "d">>
StrCancelled == <<"c", "a", "n", "c", "e", "l", "l", "e", "d">>

\* order.name?.replace('#', '')
OrderNum(order) ==
  IF order.name = NoString THEN NoString ELSE RemoveHash(order.name)

\* pickupDate >= rtoStart && pickupDate < rtoEnd
InRtoWindowOpenEnd(pickupDate, rtoStart, rtoEnd) ==
  pickupDate >= rtoStart /\ pickupDate < rtoEnd

\* pickupDate >= rtoStart && pickupDate <= rtoEnd
InRtoWindow(pickupDate, rtoStart, rtoEnd) ==
  pickupDate >= rtoStart /\ pickupDate <= rtoEnd

\* orderCreatedIST > cancelStart && orderCreatedIST <= cancelEnd
InCancelWindowOpenStart(orderCreatedIST, cancelStart, cancelEnd) ==
  orderCreatedIST > cancelStart /\ orderCreatedIST <= cancelEnd

\* orderCreatedIST >= cancelStart && orderCreatedIST <= cancelEnd
InCancelWindow(orderCreatedIST, cancelStart, cancelEnd) ==
  orderCreatedIST >= cancelStart /\ orderCreatedIST <= cancelEnd

\* shiprocket.status === 6 || shiprocket.status === 7 (line 358)
isDelivered(shiprocket) ==
  \/ shiprocket.status = CodeDelivered
  \/ shiprocket.status = CodeDeliveredToo

\* shiprocket.mainStatus === 'canceled' || shiprocket.mainStatus ===
\* 'cancelled' || shiprocket.status === 8 (lines 369-371)
isCancelled(shiprocket) ==
  \/ shiprocket.mainStatus = StrCanceled
  \/ shiprocket.mainStatus = StrCancelled
  \/ shiprocket.status = CodeCancelled

NewRates == [rtoTotal |-> 0, rtoNotDelivered |-> 0,
             cancelTotal |-> 0, cancelCancelled |-> 0]

\* the RTO counters of one order (lines 349-363)
RtoUpdate(rec, cod, hasShipment, shiprocket, rtoStart, rtoEnd) ==
  IF /\ cod
     /\ hasShipment
     /\ shiprocket.pickupTimestamp # NoPickup
     /\ shiprocket.pickupTimestamp # SentinelPickup
  THEN LET pickupDate == shiprocket.pickupTimestamp[1]
       IN  IF InRtoWindow(pickupDate, rtoStart, rtoEnd)
           THEN [rec EXCEPT
                   !.rtoTotal = @ + 1,
                   !.rtoNotDelivered =
                      IF ~isDelivered(shiprocket) THEN @ + 1 ELSE @]
           ELSE rec
  ELSE rec

\* the cancellation counters of one order (lines 365-376)
CancelUpdate(rec, orderCreatedIST, hasShipment, shiprocket, cancelStart, cancelEnd) ==
  IF InCancelWindow(orderCreatedIST, cancelStart, cancelEnd)
  THEN [rec EXCEPT
          !.cancelTotal = @ + 1,
          !.cancelCancelled =
             IF hasShipment /\ isCancelled(shiprocket) THEN @ + 1 ELSE @]
  ELSE rec

\* the body of allShopifyOrders.forEach (lines 328-377)
RatesStep(productRates, order, shiprocketMap, rtoStart, rtoEnd, cancelStart, cancelEnd) ==
  LET orderNum == OrderNum(order)
      orderCreatedIST == ISTDate(order.created_at)
      hasShipment == orderNum \in DOMAIN shiprocketMap
      shiprocket == IF hasShipment THEN shiprocketMap[orderNum]
                    ELSE Shipment(NoStatus, << >>, NoPickup)
      attributedProduct == getAttributedProduct(order)
  IN  IF ~Truthy(attributedProduct) THEN productRates
      ELSE LET rec0 == IF attributedProduct \in DOMAIN productRates
                       THEN productRates[attributedProduct]
                       ELSE NewRates
               rec1 == RtoUpdate(rec0, isCOD(order), hasShipment,
                                 shiprocket, rtoStart, rtoEnd)
               rec2 == CancelUpdate(rec1, orderCreatedIST, hasShipment,
                                    shiprocket, cancelStart, cancelEnd)
           IN  (attributedProduct :> rec2) @@ productRates

\* part / total * 100 without the total > 0 test
PercentageUnguarded(part, total) ==
  RMul(RDiv(Num(part), Num(total)), Num(100))

\* total > 0 ? (part / total * 100) : 0
Percentage(part, total) ==
  IF total > 0 THEN RMul(RDiv(Num(part), Num(total)), Num(100)) ELSE Zero

\* rates[product] (lines 381-384)
RatesOf(data) ==
  [predictiveRTO |-> Percentage(data.rtoNotDelivered, data.rtoTotal),
   predictiveCancel |-> Percentage(data.cancelCancelled, data.cancelTotal)]

\* allShopifyOrders.forEach(order => { ... }) from order i on
RECURSIVE RatesFrom(_, _, _, _, _, _, _, _)
RatesFrom(pr, orders, shipMap, rs, re, cs, ce, i) ==
  IF i > Len(orders) THEN pr
  ELSE RatesFrom(RatesStep(pr, orders[i], shipMap, rs, re, cs, ce),
                 orders, shipMap, rs, re, cs, ce, i + 1)

\* calculatePredictiveRates(allShopifyOrders, shiprocketMap, rtoStart,
\* rtoEnd, cancelStart, cancelEnd) (lines 325-390)
calculatePredictiveRates(orders, shipMap, rs, re, cs, ce) ==
  LET pr == RatesFrom(<< >>, orders, shipMap, rs, re, cs, ce, 1)
  IN  [product \in DOMAIN pr |-> RatesOf(pr[product])]

-----------------------------------------------------------------------------
(* Shipment records of the logistics provider and their two readings.      *)

\* an order of response.data.data: channel_order_id, status (text),
\* shipments[0].status (code) and shipments[0].pickedup_timestamp
RawShipment(id, text, code, pickup) ==
  [channel_order_id |-> id, status |-> text, shipmentStatus |-> code,
   pickedup_timestamp |-> pickup]

\* String(order.status || '').toLowerCase()
MainStatusOf(raw) ==
  toLowerCase(IF Truthy(raw.status) THEN raw.status ELSE << >>)

CodesRto == {9, 10, 12, 13, 14, 15, 16, 17}
CodesInTransit == {4, 5}

\* deliveryStatus of fetchCurrentShiprocketStatuses (lines 142-155)
DeliveryStatus(raw) ==
  LET status == raw.shipmentStatus
      mainStatus == MainStatusOf(raw)
  IN  IF \/ mainStatus = StrCanceled
         \/ mainStatus = StrCancelled
         \/ status = CodeCancelled
      THEN StatusCancelled
      ELSE IF status = CodeDelivered \/ status = CodeDeliveredToo
      THEN StatusDelivered
      ELSE IF status \in CodesRto THEN StatusRto
      ELSE IF status \in CodesInTransit THEN StatusInTransit
      ELSE StatusPending

\* shiprocketMap[order.channel_order_id] = { ... } (lines 300-304)
ShipmentEntry(raw) ==
  Shipment(raw.shipmentStatus, MainStatusOf(raw), raw.pickedup_timestamp)

\* order-level status texts as the provider sends them
RawTexts ==
  { NoString,
    <<"N", "E", "W">>,
    <<"C", "A", "N", "C", "E", "L", "E", "D">>,
    <<"C", "a", "n", "c", "e", "l", "l", "e", "d">>,
    <<"D", "E", "L", "I", "V", "E", "R", "E", "D">>,
    <<"R", "T", "O">> }

\* shipment status codes: none, and the codes 1 to 18
RawCodes == {NoStatus} \cup (1..18)

RawRecords ==
  {RawShipment(<<"1">>, text, code, NoPickup) :
     text \in RawTexts, code \in RawCodes}

-----------------------------------------------------------------------------
(* The secondary feeds and the request handler's computation.              *)

\* const statusMap = {}; response.data.data.forEach(order => { ...
\* statusMap[orderNum] = deliveryStatus }) (lines 138-158)
RECURSIVE StatusMapFrom(_, _, _)
StatusMapFrom(statusMap, data, i) ==
  IF i > Len(data) THEN statusMap
  ELSE StatusMapFrom((data[i].channel_order_id :> DeliveryStatus(data[i]))
                       @@ statusMap,
                     data, i + 1)

\* a campaign of the ad platform: name, whether insights.data has an
\* entry, and its spend
Campaign(nm, ins, sp) == [name |-> nm, insights |-> ins, spend |-> sp]

\* parseFloat(campaign.insights.data[0].spend || 0)
SpendOfCampaign(campaign) ==
  IF campaign.spend = NoAmount THEN Zero ELSE parseFloat(campaign.spend)

\* campaignName.split('|')[0].trim().toLowerCase()
ProductNameOf(campaign) == toLowerCase(trim(SplitFirst(campaign.name, "|")))

\* campaigns.forEach(campaign => { ... }) (lines 188-199)
RECURSIVE AdSpendFrom(_, _, _)
AdSpendFrom(adSpend, campaigns, i) ==
  IF i > Len(campaigns) THEN adSpend
  ELSE IF campaigns[i].insights
  THEN LET productName == ProductNameOf(campaigns[i])
           before == IF productName \in DOMAIN adSpend
                     THEN adSpend[productName] ELSE Zero
       IN  AdSpendFrom((productName :>
                          RAdd(before, SpendOfCampaign(campaigns[i])))
                         @@ adSpend,
                       campaigns, i + 1)
  ELSE AdSpendFrom(adSpend, campaigns, i + 1)

\* const shiprocketMap = {}; allShiprocketOrders.forEach(order => { ... })
\* (lines 298-305)
RECURSIVE ShiprocketMapFrom(_, _, _)
ShiprocketMapFrom(shipMap, allShiprocketOrders, i) ==
  IF i > Len(allShiprocketOrders) THEN shipMap
  ELSE ShiprocketMapFrom((allShiprocketOrders[i].channel_order_id :>
                            ShipmentEntry(allShiprocketOrders[i]))
                           @@ shipMap,
                         allShiprocketOrders, i + 1)

\* shopifyData.orders.filter(order => orderDateIST === targetDate)
RECURSIVE TodaysOrders(_, _, _)
TodaysOrders(orders, target, i) ==
  IF i > Len(orders) THEN << >>
  ELSE IF ISTDate(orders[i].created_at) = target
  THEN <<orders[i]>> \o TodaysOrders(orders, target, i + 1)
  ELSE TodaysOrders(orders, target, i + 1)

\* the analytics of a request once its feeds are in (lines 275-316)
AnalyticsOf(orders, target, adSpend, currentStatuses, allShiprocketOrders) ==
  LET shipMap == ShiprocketMapFrom(<< >>, allShiprocketOrders, 1)
      predRates ==
        calculatePredictiveRates(orders, shipMap,
                                 RtoStartStr(target), RtoEndStr(target),
                                 CancelStartStr(target),
                                 CancelEndStr(target))
  IN  processOrders(TodaysOrders(orders, target, 1), adSpend,
                    currentStatuses, predRates)

-----------------------------------------------------------------------------
(* Tokens, fetch promises and responses.                                   *)

\* 10 * 24 * 60 * 60 * 1000 ms, in half hours (line 80)
TokenLifetime == 480

\* shiprocketTokenExpiry = null
NoExpiry == 0

\* the token a login answers with
LoginToken == <<"token">>

\* SHOPIFY_ACCESS_TOKEN of the environment
ShopifyToken == <<"shpat">>

\* the cache test without the comparison with Date.now()
TokenCachedEver(token, expiry, now) == Truthy(token) /\ expiry # NoExpiry

\* shiprocketToken && shiprocketTokenExpiry && Date.now() <
\* shiprocketTokenExpiry (line 65)
TokenCached(token, expiry, now) ==
  Truthy(token) /\ expiry # NoExpiry /\ now < expiry

\* the request never refused for want of a token
NeverBlocked(token) == FALSE

\* if (!accessToken) throw new Error('Not authenticated') (line 57)
NotAuthenticated(token) == ~Truthy(token)

\* a fetch promise: where its function stands, what it resolved with, and
\* whether it rejected
Fetch(st, res, rej) == [stage |-> st, result |-> res, rejected |-> rej]

NotStarted == Fetch("idle", << >>, FALSE)

\* the fetch function returned its result
Resolved(result) == Fetch("settled", result, FALSE)

\* the error leaves the fetch function
Rethrown(empty) == Fetch("settled", empty, TRUE)

\* catch (error) { console.error(...); return {} } (lines 122-125,
\* 162-165, 202-205; [] for the 30-day list)
Caught(empty) == Fetch("settled", empty, FALSE)

\* the handler going on as soon as one fetch has settled
AnySettled(fetched) == \E f \in DOMAIN fetched : fetched[f].stage = "settled"

\* await Promise.all([...]) resolved (lines 292-296)
AllSettled(fetched) == \A f \in DOMAIN fetched : fetched[f].stage = "settled"

\* the three secondary fetches, in the order of the Promise.all array
Feeds == {"ad", "status", "list"}
TokenFeeds == {"status", "list"}

\* where a fetch function stands after its synchronous start: the ad
\* fetch returns {} when unconfigured (lines 169-171); the two logistics
\* fetches call getShiprocketToken (lines 65-71, 91-92, 129-130)
StartFetch(f, metaOk, credsOk, token, expiry, now) ==
  IF f = "ad"
  THEN IF metaOk THEN Fetch("get", << >>, FALSE) ELSE Resolved(<< >>)
  ELSE IF TokenCached(token, expiry, now) THEN Fetch("get", << >>, FALSE)
  ELSE IF ~credsOk THEN Resolved(<< >>)
  ELSE Fetch("login", << >>, FALSE)

\* res.json({ success: true, date, targetDate, analytics }) and
\* res.status(500).json({ success: false, error: error.message })
NoResponse == [kind |-> "none", analytics |-> NoAnalytics, error |-> ""]
Success(a) == [kind |-> "success", analytics |-> a, error |-> ""]
Failure(message) ==
  [kind |-> "failure", analytics |-> NoAnalytics, error |-> message]

-----------------------------------------------------------------------------
(* Inputs of the request handler: day 100 is the day of the first request. *)

\* shopifyData.orders: two orders of day 100 (Asia/Kolkata), a COD order
\* picked up on day 93 and a prepaid order created on day 99
PrimaryOrders ==
  << Order(1, <<"#", "1">>, <<"1">>, <<GwCOD>>, <<100, 0>>, NoLanding,
           <<iW55, iG45>>, 100 * HalfHoursPerDay),
     Order(2, <<"#", "2">>, <<"2">>, <<GwCard>>, <<100, 0>>, NoLanding,
           <<iW55>>, 100 * HalfHoursPerDay + 10),
     Order(3, <<"#", "3">>, <<"3">>, <<GwCOD>>, <<100, 0>>, NoLanding,
           <<iW55>>, 90 * HalfHoursPerDay),
     Order(4, <<"#", "4">>, <<"4">>, <<GwCard>>, <<100, 0>>, NoLanding,
           <<iW55>>, 99 * HalfHoursPerDay) >>

\* the campaigns of the ad platform: "W |a" 100, "w|b" 20.50, "G" without
\* insights
CampaignsA ==
  << Campaign(<<"W", " ", "|", "a">>, TRUE, <<100, 0>>),
     Campaign(<<"w", "|", "b">>, TRUE, <<20, 50>>),
     Campaign(<<"G">>, FALSE, NoAmount) >>

\* the current shipments: order 1 delivered, order 2 in transit
CurrentShipments ==
  << RawShipment(<<"1">>, <<"D", "E", "L", "I", "V", "E", "R", "E", "D">>,
                 7, <<100, 30>>),
     RawShipment(<<"2">>, <<"N", "E", "W">>, 4, NoPickup) >>

\* the shipments of the last 30 days: order 3 picked up on day 93 and in
\* RTO, order 4 cancelled
HistoryShipments ==
  << RawShipment(<<"3">>, <<"R", "T", "O">>, 9, <<93, 10>>),
     RawShipment(<<"4">>, <<"C", "A", "N", "C", "E", "L", "E", "D">>,
                 NoStatus, NoPickup) >>

\* the ad spend fetchMetaAdSpend makes of the campaigns (lines 186-201)
MetaAdSpend == AdSpendFrom(<< >>, CampaignsA, 1)

\* the status map fetchCurrentShiprocketStatuses makes of the shipments
\* (lines 139-162)
CurrentStatuses == StatusMapFrom(<< >>, CurrentShipments, 1)

\* what a feed answers with
DataOf(f) ==
  IF f = "ad" THEN MetaAdSpend
  ELSE IF f = "status" THEN CurrentStatuses
  ELSE HistoryShipments

\* how the world answers the requests of one analytics request: the
\* order fetch, the login of each logistics fetch and the data request of
\* each secondary fetch succeed, fail or are never answered
Answers == {"ok", "fail", "never"}

AllAnswered ==
  [primary |-> "ok", login |-> [f \in TokenFeeds |-> "ok"],
   get |-> [f \in Feeds |-> "ok"]]

\* a data request is only sent after a login that succeeded, and the
\* secondary requests only after an order fetch that succeeded
World ==
  { [AllAnswered EXCEPT !.primary = "fail"] }
  \cup
  { w \in [primary : {"ok"}, login : [TokenFeeds -> Answers],
           get : [Feeds -> Answers]] :
      \A f \in TokenFeeds : w.login[f] # "ok" => w.get[f] = "ok" }

\* the first request is made on day 100 at 10:00 UTC
FirstNow == 100 * HalfHoursPerDay + 20

\* how far the clock moves at once: half an hour, or to half an hour
\* before a token of that instant expires
Jumps == {1, TokenLifetime - 1}

-----------------------------------------------------------------------------
(* The earlier processOrders(orders) of src/unnamed/part_000.              *)

LegacyNewSku(sku, item) ==
  [sku |-> sku, productName |-> item.name,
   codOrders |-> 0, prepaidOrders |-> 0,
   codRevenue |-> Zero, prepaidRevenue |-> Zero,
   totalOrders |-> 0, totalRevenue |-> Zero]

\* one iteration of order.line_items?.forEach (lines 350-378)
LegacyItemStep(skuData, cod, item) ==
  LET sku == SkuOf(item)
      rec == IF sku \in DOMAIN skuData THEN skuData[sku]
             ELSE LegacyNewSku(sku, item)
      itemTotal == ItemRevenue(item)
  IN  (sku :>
         IF cod
         THEN [rec EXCEPT !.codOrders = @ + 1,
                          !.codRevenue = RAdd(@, itemTotal),
                          !.totalOrders = @ + 1,
                          !.totalRevenue = RAdd(@, itemTotal)]
         ELSE [rec EXCEPT !.prepaidOrders = @ + 1,
                          !.prepaidRevenue = RAdd(@, itemTotal),
                          !.totalOrders = @ + 1,
                          !.totalRevenue = RAdd(@, itemTotal)])
      @@ skuData

RECURSIVE LegacyItems(_, _, _, _)
LegacyItems(skuData, cod, lineItems, i) ==
  IF i > Len(lineItems) THEN skuData
  ELSE LegacyItems(LegacyItemStep(skuData, cod, lineItems[i]), cod,
                   lineItems, i + 1)

\* orders.forEach from order i on (lines 344-379)
RECURSIVE LegacyOrders(_, _, _)
LegacyOrders(skuData, orders, i) ==
  IF i > Len(orders) THEN skuData
  ELSE LegacyOrders(
         LegacyItems(skuData, isCOD(orders[i]), orders[i].line_items, 1),
         orders, i + 1)

LegacyProcessOrders(orders) ==
  [totalOrders |-> Len(orders), skus |-> LegacyOrders(<< >>, orders, 1)]

NoLegacyAnalytics == [totalOrders |-> 0, skus |-> << >>]

-----------------------------------------------------------------------------
(* Inputs of processOrders.                                                *)

\* current shipment status by order number
StatusesA == (<<"1">> :> StatusDelivered) @@ (<<"2">> :> StatusRto)

\* ad spend by campaign name
AdSpendA == (<<"w">> :> Num(100)) @@ (<<"g">> :> Num(40))

\* predictive rates by product
RatesA == (<<"w">> :> [predictiveRTO |-> Num(30), predictiveCancel |-> Zero])

\* the orders of a batch: order 1 with every line-item list, as COD or
\* prepaid, with and without total_price and utm_campaign; order 2 with
\* five line-item lists and three gateway lists
ProcOrders ==
  { Order(1, <<"#", "1">>, <<"1">>, gws, tot, l, li, 0) :
      gws \in {<<GwCOD>>, <<GwCard>>},
      tot \in {<<500, 0>>, NoAmount},
      l \in {NoLanding, Landing(TRUE, TRUE, <<"W", "_", "x">>)},
      li \in ItemLists }
  \cup
  { Order(2, <<"#", "2">>, <<"2">>, gws, <<100, 0>>, NoLanding, li, 0) :
      gws \in {<<GwCard, GwCash>>, <<GwCard>>, << >>},
      li \in { << >>, <<iW55>>, <<iG45, iw45>>, <<iW55, iG45, iw45>>,
               <<iT0, iW0>> } }

\* the inputs of the SKU aggregation: orders 1 to 3, COD and prepaid, with
\* one line item, two line items under one SKU, line items under two and
\* three SKUs, an empty product key and a utm_campaign of another product
SkuOrder(id, digit, gws, land, items) ==
  Order(id, <<"#", digit>>, <<digit>>, gws, <<100, 0>>, land, items, 0)

SkuOrders ==
  { SkuOrder(1, "1", gws, NoLanding, li) :
      gws \in {<<GwCOD>>, <<GwCard>>},
      li \in { <<iW55>>, <<iW55, iw45>>, <<iX30, iW55>> } }
  \cup
  { SkuOrder(2, "2", gws, l, li) :
      gws \in {<<GwCash>>, <<GwCard>>},
      l \in {NoLanding, Landing(TRUE, TRUE, <<"W", "_", "x">>)},
      li \in { <<iG45>>, <<iT45>> } }
  \cup
  { SkuOrder(3, "3", <<GwCOD>>, NoLanding, <<iG45, iw45, iW55>>) }

\* current shipment statuses: every coarse status, and orders without one
StatusesB == (<<"1">> :> StatusCancelled) @@ (<<"2">> :> StatusInTransit)
StatusesC == (<<"1">> :> StatusPending) @@ (<<"3">> :> StatusRto)
NoStatuses == << >>

\* ad spend with the campaigns "w" and "wx" both prefixes of "wx"
AdSpendB ==
  (<<"w">> :> Num(100)) @@ (<<"w", "x">> :> Num(40)) @@ (<<"g">> :> Num(7))
NoAdSpend == << >>

\* the feeds a batch is aggregated with
SkuFeeds ==
  { [statuses |-> StatusesA, adSpend |-> AdSpendB],
    [statuses |-> StatusesB, adSpend |-> AdSpendA],
    [statuses |-> StatusesC, adSpend |-> NoAdSpend],
    [statuses |-> NoStatuses, adSpend |-> AdSpendB] }

-----------------------------------------------------------------------------
(* Inputs of calculatePredictiveRates.                                     *)

StrNew == <<"n", "e", "w">>
StrRto == <<"r", "t", "o">>
StrDelivered == <<"d", "e", "l", "i", "v", "e", "r", "e", "d">>

\* shiprocketMap: for target day 100 the RTO window is days 86..93.  Order
\* 9 has no shipment record.
ShipMapA ==
  (<<"1">> :> Shipment(6, StrDelivered, <<86, 20>>))
  @@ (<<"2">> :> Shipment(7, StrDelivered, <<93, 47>>))
  @@ (<<"3">> :> Shipment(9, StrRto, <<85, 47>>))
  @@ (<<"4">> :> Shipment(9, StrRto, <<94, 0>>))
  @@ (<<"5">> :> Shipment(8, StrNew, <<93, 0>>))
  @@ (<<"6">> :> Shipment(4, StrCanceled, NoPickup))
  @@ (<<"7">> :> Shipment(NoStatus, StrCancelled, SentinelPickup))
  @@ (<<"8">> :> Shipment(9, StrRto, <<86, 0>>))

OrderDigits == {"1", "2", "3", "4", "5", "6", "7", "8", "9"}

\* creation instants: day 92 18:00 and 18:30 UTC (23:30 of day 92 and 00:00
\* of day 93 in Asia/Kolkata), day 99 18:00 and 18:30 UTC
Created92 == 92 * HalfHoursPerDay + 36
Created93 == 92 * HalfHoursPerDay + 37
Created99 == 99 * HalfHoursPerDay + 36
Created100 == 99 * HalfHoursPerDay + 37

\* "now" of the request: day 100, 10:00 UTC and 20:00 UTC (day 101 in
\* Asia/Kolkata)
Nows == {100 * HalfHoursPerDay + 20, 100 * HalfHoursPerDay + 40}

HistOrder(digit, gws, created, land, items) ==
  Order(1, <<"#", digit>>, <<digit>>, gws, <<100, 0>>, land, items, created)

\* the historical orders: every shipment record with a COD and a prepaid
\* order; every creation instant with a cancelled, a not cancelled and no
\* shipment; an order attributed by utm_campaign, an ambiguous order and
\* an order with the empty product key
HistOrders ==
  { HistOrder(dg, gws, Created92, NoLanding, <<iW55>>) :
      dg \in OrderDigits, gws \in {<<GwCOD>>, <<GwCard>>} }
  \cup
  { HistOrder(dg, gws, c, NoLanding, <<iW55>>) :
      dg \in {"5", "6", "8", "9"}, gws \in {<<GwCOD>>, <<GwCard>>},
      c \in {Created92, Created93, Created99, Created100} }
  \cup
  { HistOrder("5", <<GwCOD>>, Created93,
              Landing(TRUE, TRUE, <<" ", "G", " ", "_", "x">>), <<iW55>>),
    HistOrder("5", <<GwCOD>>, Created93, NoLanding, <<iG45, iw45>>),
    HistOrder("5", <<GwCOD>>, Created93, NoLanding, <<iT0>>) }

\* a cohort of one product: COD orders picked up inside the RTO window,
\* delivered and not, and prepaid orders created inside the cancellation
\* window, cancelled and not
CohortOrders ==
  { HistOrder("1", <<GwCOD>>, Created92, NoLanding, <<iW55>>),
    HistOrder("8", <<GwCOD>>, Created92, NoLanding, <<iW55>>),
    HistOrder("6", <<GwCard>>, Created93, NoLanding, <<iW55>>),
    HistOrder("9", <<GwCard>>, Created99, NoLanding, <<iW55>>) }

-----------------------------------------------------------------------------
(* State.                                                                  *)

VARIABLES
  attrOrder,     \* the order of the latest getAttributedProduct call
  attrResult,    \* what that call returned
  revenueMap,    \* the revenueMap of the latest call (empty: it built none)
  firstOrder,    \* the order of the first call
  firstResult,   \* what the first call returned
  interleaved,   \* some call after the first was on another order
  calls,         \* number of calls so far
  \* processOrders
  catalog,               \* the orders a batch is made of
  adSpendByProduct,      \* argument
  shiprocketStatuses,    \* argument
  predictiveRates,       \* argument
  batch,                 \* the orders the forEach has reached, in order
  pc,                    \* "idle", "loop", "items", "done"
  itemIdx,               \* the line item the inner forEach is at
  seenOrders,
  codCount,
  prepaidCount,
  codRevenue,
  prepaidRevenue,
  manualReviewCount,
  productAttributionMap,
  skuData,
  analytics,             \* the returned object
  legacyAnalytics,       \* what the earlier processOrders returned
  \* calculatePredictiveRates
  histPool,              \* the orders the history is made of
  histLimit,             \* the most orders a history has
  targetDate,            \* targetDate of the request
  shiprocketMap,         \* argument
  rtoStart,              \* argument
  rtoEnd,                \* argument
  cancelStart,           \* argument
  cancelEnd,             \* argument
  productRates,
  histCount,             \* orders the forEach has gone through
  histOrder,             \* the order of the latest iteration
  rpc,                   \* "idle", "loop", "done"
  rates,                 \* the returned object
  \* one shipment record read by both consumers
  shipRecord,            \* the provider's record
  cpc,                   \* "idle", "read", "done"
  deliveryStatus,        \* statusMap entry of the record
  rateDelivered,         \* isDelivered of calculatePredictiveRates
  rateCancelled,         \* isCancelled of calculatePredictiveRates
  \* the server: module state, configuration and one analytics request
  accessToken,           \* line 22
  shiprocketToken,       \* line 23
  shiprocketTokenExpiry, \* line 24
  metaConfigured,        \* META_ACCESS_TOKEN && META_AD_ACCOUNT_ID
  credsConfigured,       \* SHIPROCKET_EMAIL && SHIPROCKET_PASSWORD
  clock,                 \* Date.now(), in half hours
  ticks,                 \* how often the clock has moved
  requests,              \* analytics requests so far
  hpc,                   \* "idle", "primary", "fetching", "responded"
  reqTarget,             \* targetDate of the request
  world,                 \* how the world answers this request
  shopifyOrders,         \* shopifyData.orders
  fetched,               \* the three promises of Promise.all
  started,               \* the secondary fetches this request called
  logins,                \* login requests this request sent
  firstSettled,          \* the fetch that was answered first, or "none"
  aggregated,            \* the aggregation of this request was started
  responses,             \* responses this request has sent
  response,              \* the latest response
  \* the analytics computation, run again on the same inputs
  run,                   \* the invocation under way (0: none)
  givenHistory,          \* shopifyData.orders
  givenOrders,           \* todaysOrders
  firstRates,            \* what calculatePredictiveRates returned first
  firstAnalytics         \* what processOrders returned first

attrVars == <<attrOrder, attrResult, revenueMap, firstOrder, firstResult,
              interleaved, calls>>

procInputs == <<catalog, adSpendByProduct, shiprocketStatuses,
                predictiveRates>>

procVars == <<batch, pc, itemIdx, seenOrders, codCount, prepaidCount,
              codRevenue, prepaidRevenue, manualReviewCount,
              productAttributionMap, skuData, analytics, legacyAnalytics>>

ratesInputs == <<histPool, histLimit, targetDate, shiprocketMap, rtoStart,
                 rtoEnd, cancelStart, cancelEnd>>

ratesVars == <<productRates, histCount, histOrder, rpc, rates>>

classifyVars == <<shipRecord, cpc, deliveryStatus, rateDelivered,
                  rateCancelled>>

tokenVars == <<shiprocketToken, shiprocketTokenExpiry>>

configVars == <<accessToken, metaConfigured, credsConfigured>>

requestVars == <<requests, hpc, reqTarget, world, shopifyOrders, fetched,
                 started, logins, firstSettled, aggregated, responses,
                 response>>

handlerVars == <<tokenVars, configVars, clock, ticks, requestVars>>

rerunVars == <<run, givenHistory, givenOrders, firstRates, firstAnalytics>>

serverVars == <<classifyVars, handlerVars, rerunVars>>

vars == <<attrVars, procInputs, procVars, ratesInputs, ratesVars,
          serverVars>>

-----------------------------------------------------------------------------
(* getAttributedProduct, called on its own.                                *)

\* no call of getAttributedProduct yet
AttrStart ==
  /\ attrOrder = NoOrder
  /\ attrResult = NoString
  /\ revenueMap = << >>
  /\ firstOrder = NoOrder
  /\ firstResult = NoString
  /\ interleaved = FALSE
  /\ calls = 0

\* the locals of processOrders at its entry (lines 393-400)
ProcLocalsInit ==
  /\ batch = << >>
  /\ itemIdx = 0
  /\ seenOrders = {}
  /\ codCount = 0
  /\ prepaidCount = 0
  /\ codRevenue = Zero
  /\ prepaidRevenue = Zero
  /\ manualReviewCount = 0
  /\ productAttributionMap = << >>
  /\ skuData = << >>
  /\ analytics = NoAnalytics
  /\ legacyAnalytics = NoLegacyAnalytics

\* processOrders is not running
ProcIdle ==
  /\ pc = "idle"
  /\ catalog = {}
  /\ adSpendByProduct = << >>
  /\ shiprocketStatuses = << >>
  /\ predictiveRates = << >>
  /\ ProcLocalsInit

\* the locals of calculatePredictiveRates at its entry (line 326)
RatesLocalsInit ==
  /\ productRates = << >>
  /\ histCount = 0
  /\ histOrder = NoOrder
  /\ rates = << >>

\* calculatePredictiveRates is not running
RatesIdle ==
  /\ rpc = "idle"
  /\ histPool = {}
  /\ histLimit = 0
  /\ targetDate = 0
  /\ shiprocketMap = << >>
  /\ rtoStart = 0
  /\ rtoEnd = 0
  /\ cancelStart = 0
  /\ cancelEnd = 0
  /\ RatesLocalsInit

\* no shipment record is being read
ClassifyIdle ==
  /\ cpc = "idle"
  /\ shipRecord = RawShipment(NoString, NoString, NoStatus, NoPickup)
  /\ deliveryStatus = StatusPending
  /\ rateDelivered = FALSE
  /\ rateCancelled = FALSE

\* the locals of the handler while no request is being handled
NoRequest ==
  /\ hpc = "idle"
  /\ reqTarget = 0
  /\ world = AllAnswered
  /\ shopifyOrders = << >>
  /\ fetched = [f \in Feeds |-> NotStarted]
  /\ started = {}
  /\ logins = {}
  /\ firstSettled = "none"
  /\ aggregated = FALSE
  /\ responses = 0
  /\ response = NoResponse

\* no request has been made
RequestIdle == requests = 0 /\ NoRequest

\* the module state of a server that is not used (lines 22-24)
HandlerIdle ==
  /\ accessToken = NoString
  /\ shiprocketToken = NoString
  /\ shiprocketTokenExpiry = NoExpiry
  /\ metaConfigured = FALSE
  /\ credsConfigured = FALSE
  /\ clock = 0
  /\ ticks = 0
  /\ RequestIdle

\* the computation is not run a second time
RerunIdle ==
  /\ run = 0
  /\ givenHistory = << >>
  /\ givenOrders = << >>
  /\ firstRates = << >>
  /\ firstAnalytics = NoAnalytics

ServerIdle == ClassifyIdle /\ HandlerIdle /\ RerunIdle

AttrInit == AttrStart /\ ProcIdle /\ RatesIdle /\ ServerIdle

\* one call getAttributedProduct(order)
Attribute(order) ==
  LET call == AttributeCall(order, revenueMap)
  IN  /\ calls < MaxCalls
      /\ calls' = calls + 1
      /\ attrOrder' = order
      /\ attrResult' = call.result
      /\ revenueMap' = call.revenueMap
      /\ firstOrder' = IF calls = 0 THEN order ELSE firstOrder
      /\ firstResult' = IF calls = 0 THEN call.result ELSE firstResult
      /\ interleaved' = (interleaved \/ (calls > 0 /\ order # firstOrder))
      /\ UNCHANGED <<procInputs, procVars, ratesInputs, ratesVars, serverVars>>

AttrNext == \E order \in AttrOrders : Attribute(order)

SpecAttr == AttrInit /\ [][AttrNext]_vars

-----------------------------------------------------------------------------
(* processOrders(orders, adSpendByProduct, shiprocketStatuses,             *)
(* predictiveRates), one forEach iteration at a time.                      *)

ProcInit ==
  /\ AttrStart
  /\ ServerIdle
  /\ RatesIdle
  /\ pc = "loop"
  /\ catalog = ProcOrders
  /\ adSpendByProduct = AdSpendA
  /\ shiprocketStatuses = StatusesA
  /\ predictiveRates = RatesA
  /\ ProcLocalsInit

\* orders.forEach(order => { ... }) up to the line items (lines 402-435);
\* an order id stands for one order, so a repeated id repeats the order
StartOrder(order) ==
  LET attributedProduct == getAttributedProduct(order)
      seen == AlreadySeen(seenOrders, order.id)
  IN  /\ pc = "loop"
      /\ Len(batch) < MaxBatch
      /\ \A i \in 1..Len(batch) : batch[i].id = order.id => batch[i] = order
      /\ batch' = Append(batch, order)
      /\ seenOrders' = seenOrders \cup {order.id}
      /\ codCount' = IF ~seen /\ isCOD(order) THEN codCount + 1
                     ELSE codCount
      /\ codRevenue' = IF ~seen /\ isCOD(order)
                       THEN RAdd(codRevenue, OrderTotal(order))
                       ELSE codRevenue
      /\ prepaidCount' = IF ~seen /\ ~isCOD(order) THEN prepaidCount + 1
                         ELSE prepaidCount
      /\ prepaidRevenue' = IF ~seen /\ ~isCOD(order)
                           THEN RAdd(prepaidRevenue, OrderTotal(order))
                           ELSE prepaidRevenue
      /\ productAttributionMap' =
           AttributionUpdate(productAttributionMap, attributedProduct,
                             isCOD(order))
      /\ manualReviewCount' =
           ReviewUpdate(manualReviewCount, attributedProduct)
      /\ IF Len(order.line_items) = 0
         THEN pc' = "loop" /\ itemIdx' = 0
         ELSE pc' = "items" /\ itemIdx' = 1
      /\ UNCHANGED <<skuData, analytics, legacyAnalytics, procInputs,
                     attrVars, ratesInputs, ratesVars, serverVars>>

\* order.line_items?.forEach(item => { ... }) (lines 437-485)
NextItem ==
  LET order == batch[Len(batch)]
      item == order.line_items[itemIdx]
  IN  /\ pc = "items"
      /\ skuData' = ItemStep(skuData, order, item, shiprocketStatuses)
      /\ IF itemIdx = Len(order.line_items)
         THEN pc' = "loop" /\ itemIdx' = 0
         ELSE pc' = "items" /\ itemIdx' = itemIdx + 1
      /\ UNCHANGED <<batch, seenOrders, codCount, prepaidCount, codRevenue,
                     prepaidRevenue, manualReviewCount,
                     productAttributionMap, analytics, legacyAnalytics,
                     procInputs, attrVars, ratesInputs, ratesVars,
                 serverVars>>

\* the skus of the result and the return (lines 488-534)
Finish ==
  /\ pc = "loop"
  /\ pc' = "done"
  /\ analytics' =
       [totalOrders |-> Len(batch),
        totalCODOrders |-> codCount,
        totalPrepaidOrders |-> prepaidCount,
        totalRevenue |-> RAdd(codRevenue, prepaidRevenue),
        manualReviewCount |-> manualReviewCount,
        skus |-> [k \in DOMAIN skuData |->
                    SkuOutput(skuData[k], adSpendByProduct,
                              productAttributionMap, predictiveRates)]]
  /\ UNCHANGED <<batch, itemIdx, seenOrders, codCount, prepaidCount,
                 codRevenue, prepaidRevenue, manualReviewCount,
                 productAttributionMap, skuData, legacyAnalytics,
                 procInputs, attrVars, ratesInputs, ratesVars,
                 serverVars>>

\* the earlier processOrders(orders), run on the orders of the batch
LegacyRun ==
  /\ pc = "loop"
  /\ pc' = "legacy-done"
  /\ legacyAnalytics' = LegacyProcessOrders(batch)
  /\ UNCHANGED <<batch, itemIdx, seenOrders, codCount, prepaidCount,
                 codRevenue, prepaidRevenue, manualReviewCount,
                 productAttributionMap, skuData, analytics, procInputs,
                 attrVars, ratesInputs, ratesVars, serverVars>>

ProcNext ==
  \/ \E order \in catalog : StartOrder(order)
  \/ NextItem
  \/ Finish
  \/ LegacyRun

SpecProc == ProcInit /\ [][ProcNext]_vars

\* processOrders on the orders and feeds of the SKU aggregation
SkuInit ==
  /\ AttrStart
  /\ ServerIdle
  /\ RatesIdle
  /\ pc = "loop"
  /\ catalog = SkuOrders
  /\ \E feeds \in SkuFeeds :
       /\ adSpendByProduct = feeds.adSpend
       /\ shiprocketStatuses = feeds.statuses
  /\ predictiveRates = RatesA
  /\ ProcLocalsInit

SpecSku == SkuInit /\ [][ProcNext]_vars

-----------------------------------------------------------------------------
(* calculatePredictiveRates(allShopifyOrders, shiprocketMap, rtoStart,     *)
(* rtoEnd, cancelStart, cancelEnd), one forEach iteration at a time, with  *)
(* the window bounds the request handler computes.                         *)

\* the arguments, for a request at instant now with selector date
RatesArgs(now, date) ==
  /\ targetDate = TargetDate(now, date)
  /\ shiprocketMap = ShipMapA
  /\ rtoStart = RtoStartStr(TargetDate(now, date))
  /\ rtoEnd = RtoEndStr(TargetDate(now, date))
  /\ cancelStart = CancelStartStr(TargetDate(now, date))
  /\ cancelEnd = CancelEndStr(TargetDate(now, date))

RatesInit ==
  /\ AttrStart
  /\ ServerIdle
  /\ ProcIdle
  /\ rpc = "loop"
  /\ histPool = HistOrders
  /\ histLimit = MaxHist
  /\ \E now \in Nows, date \in {"today", "yesterday"} : RatesArgs(now, date)
  /\ RatesLocalsInit

\* a long history of one product, for a request of day 100
CohortInit ==
  /\ AttrStart
  /\ ServerIdle
  /\ ProcIdle
  /\ rpc = "loop"
  /\ histPool = CohortOrders
  /\ histLimit = MaxCohort
  /\ RatesArgs(100 * HalfHoursPerDay + 20, "today")
  /\ RatesLocalsInit

\* allShopifyOrders.forEach(order => { ... }) (lines 328-377)
HistStep(order) ==
  /\ rpc = "loop"
  /\ histCount < histLimit
  /\ histCount' = histCount + 1
  /\ histOrder' = order
  /\ productRates' = RatesStep(productRates, order, shiprocketMap, rtoStart,
                               rtoEnd, cancelStart, cancelEnd)
  /\ UNCHANGED <<rpc, rates, ratesInputs, attrVars, procInputs, procVars,
                 serverVars>>

\* the rates of every product and the return (lines 379-389)
HistFinish ==
  /\ rpc = "loop"
  /\ rpc' = "done"
  /\ rates' = [product \in DOMAIN productRates |->
                 RatesOf(productRates[product])]
  /\ UNCHANGED <<productRates, histCount, histOrder, ratesInputs, attrVars,
                 procInputs, procVars, serverVars>>

RatesNext ==
  \/ \E order \in histPool : HistStep(order)
  \/ HistFinish

SpecRates == RatesInit /\ [][RatesNext]_vars

SpecCohort == CohortInit /\ [][RatesNext]_vars

-----------------------------------------------------------------------------
(* One shipment record read by fetchCurrentShiprocketStatuses and by       *)
(* calculatePredictiveRates through shiprocketMap.                         *)

ClassifyInit ==
  /\ AttrStart
  /\ ProcIdle
  /\ RatesIdle
  /\ HandlerIdle
  /\ RerunIdle
  /\ cpc = "read"
  /\ shipRecord \in RawRecords
  /\ deliveryStatus = StatusPending
  /\ rateDelivered = FALSE
  /\ rateCancelled = FALSE

\* both consumers read the record
Classify ==
  /\ cpc = "read"
  /\ cpc' = "done"
  /\ deliveryStatus' = DeliveryStatus(shipRecord)
  /\ rateDelivered' = isDelivered(ShipmentEntry(shipRecord))
  /\ rateCancelled' = isCancelled(ShipmentEntry(shipRecord))
  /\ UNCHANGED <<shipRecord, attrVars, procInputs, procVars, ratesInputs,
                 ratesVars, handlerVars, rerunVars>>

ClassifyNext == Classify

SpecClassify == ClassifyInit /\ [][ClassifyNext]_vars

-----------------------------------------------------------------------------
(* app.get('/api/analytics'): one request at a time, its three secondary   *)
(* fetches interleaved, and getShiprocketToken with its cache.             *)

RequestInit ==
  /\ AttrStart
  /\ ProcIdle
  /\ RatesIdle
  /\ ClassifyIdle
  /\ RerunIdle
  /\ accessToken \in {NoString, ShopifyToken}
  /\ metaConfigured \in BOOLEAN
  /\ credsConfigured \in BOOLEAN
  /\ shiprocketToken = NoString
  /\ shiprocketTokenExpiry = NoExpiry
  /\ clock = FirstNow
  /\ ticks = 0
  /\ RequestIdle

\* time passes: between requests, or while a login is awaited
Tick(d) ==
  /\ ticks < MaxTicks
  /\ \/ hpc = "idle"
     \/ /\ hpc = "fetching"
        /\ d = 1
        /\ \E f \in TokenFeeds : fetched[f].stage = "login"
  /\ ticks' = ticks + 1
  /\ clock' = clock + d
  /\ UNCHANGED <<tokenVars, configVars, requestVars, classifyVars, rerunVars,
                 attrVars, procInputs, procVars, ratesInputs, ratesVars>>

\* the handler up to await shopifyRequest(...) (lines 263-273, 56-58)
Request(date, answers) ==
  /\ hpc = "idle"
  /\ requests < MaxRequests
  /\ NotAuthenticated(accessToken) => answers = world
  /\ requests' = requests + 1
  /\ reqTarget' = TargetDate(clock, date)
  /\ world' = answers
  /\ shopifyOrders' = << >>
  /\ fetched' = [f \in Feeds |-> NotStarted]
  /\ started' = {}
  /\ logins' = {}
  /\ firstSettled' = "none"
  /\ aggregated' = FALSE
  /\ IF NotAuthenticated(accessToken)
     THEN /\ hpc' = "responded"
          /\ responses' = 1
          /\ response' = Failure("Not authenticated")
     ELSE /\ hpc' = "primary"
          /\ responses' = 0
          /\ response' = NoResponse
  /\ UNCHANGED <<tokenVars, configVars, clock, ticks, classifyVars, rerunVars,
                 attrVars, procInputs, procVars, ratesInputs, ratesVars>>

\* axios.get of shopifyRequest rejects: the catch of the handler answers
\* (lines 58-61, 319-322)
PrimaryFails ==
  /\ hpc = "primary"
  /\ world.primary = "fail"
  /\ hpc' = "responded"
  /\ responses' = responses + 1
  /\ response' = Failure("Request failed")
  /\ UNCHANGED <<requests, reqTarget, world, shopifyOrders, fetched,
                 started, logins, firstSettled, aggregated, tokenVars,
                 configVars, clock,
                 ticks, classifyVars, rerunVars, attrVars, procInputs, procVars,
                 ratesInputs, ratesVars>>

\* shopifyRequest resolves; the three fetch functions are called, each
\* running to its first awaited request (lines 273-296)
PrimaryDone ==
  /\ hpc = "primary"
  /\ world.primary = "ok"
  /\ hpc' = "fetching"
  /\ shopifyOrders' = PrimaryOrders
  /\ fetched' = [f \in Feeds |->
                   StartFetch(f, metaConfigured, credsConfigured,
                              shiprocketToken, shiprocketTokenExpiry,
                              clock)]
  /\ started' = Feeds
  /\ logins' = {f \in TokenFeeds : fetched'[f].stage = "login"}
  /\ UNCHANGED <<requests, reqTarget, world, firstSettled, aggregated,
                 responses, response, tokenVars, configVars, clock, ticks,
                 classifyVars, rerunVars, attrVars, procInputs, procVars,
                 ratesInputs,
                 ratesVars>>

\* the login request of getShiprocketToken is answered (lines 73-87), and
\* the fetch function goes on with the token or returns without one
\* (lines 92, 130)
LoginDone(f) ==
  /\ hpc = "fetching"
  /\ fetched[f].stage = "login"
  /\ world.login[f] # "never"
  /\ IF world.login[f] = "ok"
     THEN /\ shiprocketToken' = LoginToken
          /\ shiprocketTokenExpiry' = clock + TokenLifetime
          /\ fetched' = [fetched EXCEPT ![f] = Fetch("get", << >>, FALSE)]
     ELSE /\ UNCHANGED tokenVars
          /\ fetched' = [fetched EXCEPT ![f] = Resolved(<< >>)]
  /\ firstSettled' = IF firstSettled = "none" /\ world.login[f] = "fail"
                     THEN f ELSE firstSettled
  /\ UNCHANGED <<requests, hpc, reqTarget, world, shopifyOrders, started,
                 logins, aggregated, responses, response, configVars,
                 clock, ticks, classifyVars, rerunVars, attrVars, procInputs,
                 procVars, ratesInputs, ratesVars>>

\* the data request of a fetch function is answered, and the function
\* returns what it made of the data or what its catch returns
\* (lines 99-125, 132-165, 173-205)
GetDone(f) ==
  /\ hpc = "fetching"
  /\ fetched[f].stage = "get"
  /\ world.get[f] # "never"
  /\ fetched' = [fetched EXCEPT
                   ![f] = IF world.get[f] = "ok" THEN Resolved(DataOf(f))
                          ELSE Caught(<< >>)]
  /\ firstSettled' = IF firstSettled = "none" THEN f ELSE firstSettled
  /\ UNCHANGED <<requests, hpc, reqTarget, world, shopifyOrders, started,
                 logins, aggregated, responses, response, tokenVars,
                 configVars, clock, ticks, classifyVars, rerunVars, attrVars,
                 procInputs, procVars, ratesInputs, ratesVars>>

\* Promise.all has resolved: shiprocketMap, calculatePredictiveRates,
\* processOrders and res.json; had a promise rejected, the catch of the
\* handler (lines 292-322)
Aggregate ==
  /\ hpc = "fetching"
  /\ AllSettled(fetched)
  /\ hpc' = "responded"
  /\ responses' = responses + 1
  /\ IF \E f \in Feeds : fetched[f].rejected
     THEN /\ aggregated' = FALSE
          /\ response' = Failure("Request failed")
     ELSE /\ aggregated' = TRUE
          /\ response' = Success(AnalyticsOf(shopifyOrders, reqTarget,
                                             fetched["ad"].result,
                                             fetched["status"].result,
                                             fetched["list"].result))
  /\ UNCHANGED <<requests, reqTarget, world, shopifyOrders, fetched,
                 started, logins, firstSettled, tokenVars, configVars,
                 clock, ticks,
                 classifyVars, rerunVars, attrVars, procInputs, procVars,
                 ratesInputs,
                 ratesVars>>

\* the handler has answered and returns; its locals are gone
Return ==
  /\ hpc = "responded"
  /\ hpc' = "idle"
  /\ reqTarget' = 0
  /\ world' = AllAnswered
  /\ shopifyOrders' = << >>
  /\ fetched' = [f \in Feeds |-> NotStarted]
  /\ started' = {}
  /\ logins' = {}
  /\ firstSettled' = "none"
  /\ aggregated' = FALSE
  /\ responses' = 0
  /\ response' = NoResponse
  /\ UNCHANGED <<requests, tokenVars, configVars, clock, ticks,
                 classifyVars, rerunVars, attrVars, procInputs, procVars,
                 ratesInputs,
                 ratesVars>>

RequestNext ==
  \/ \E d \in Jumps : Tick(d)
  \/ \E date \in {"today", "yesterday"}, answers \in World :
       Request(date, answers)
  \/ PrimaryFails
  \/ PrimaryDone
  \/ \E f \in TokenFeeds : LoginDone(f)
  \/ \E f \in Feeds : GetDone(f)
  \/ Aggregate
  \/ Return

SpecRequest == RequestInit /\ [][RequestNext]_vars

\* Promise.all resolves or rejects and the handler goes on to its
\* response: the steps of Aggregate, and enabled when Aggregate is
JoinDone ==
  /\ hpc = "fetching"
  /\ AllSettled(fetched)
  /\ hpc' = "responded"

\* a step of the handler up to the join, or the arrival of an answer the
\* world gives
HandlerStep ==
  \/ PrimaryFails
  \/ PrimaryDone
  \/ \E f \in TokenFeeds : LoginDone(f)
  \/ \E f \in Feeds : GetDone(f)

\* the event loop runs every continuation that is ready; each is taken at
\* most once in a request, so fairness of their disjunction gives each
RequestFairness == WF_vars(HandlerStep) /\ WF_hpc(JoinDone)

\* an authorised server with every feed configured (lines 22-24, 34-54)
RequestFairInit ==
  /\ RequestInit
  /\ accessToken = ShopifyToken
  /\ metaConfigured
  /\ credsConfigured

SpecRequestFair ==
  RequestFairInit /\ [][RequestNext]_vars /\ RequestFairness

-----------------------------------------------------------------------------
(* The analytics computation of the handler (lines 307-316):               *)
(* calculatePredictiveRates on shopifyData.orders, then processOrders on   *)
(* todaysOrders with the rates, and the same again on the same inputs.     *)

\* the historical orders: a delivered COD order, a COD order in RTO and a
\* cancelled prepaid order of the cancellation window
RerunHistPool ==
  { HistOrder("1", <<GwCOD>>, Created92, NoLanding, <<iW55>>),
    HistOrder("8", <<GwCOD>>, Created92, NoLanding, <<iW55>>),
    HistOrder("6", <<GwCard>>, Created99, NoLanding, <<iW55>>) }

\* the orders of the day: a COD order of two products, a prepaid order and
\* a COD order of the second product
RerunOrderPool ==
  { SkuOrder(1, "1", <<GwCOD>>, NoLanding, <<iW55, iG45>>),
    SkuOrder(2, "2", <<GwCard>>, NoLanding, <<iW55>>),
    SkuOrder(3, "3", <<GwCOD>>, NoLanding, <<iG45>>) }

\* the lists of at most n elements of a pool
ListsOf(pool, n) == UNION { [1..k -> pool] : k \in 0..n }

RerunInit ==
  /\ AttrStart
  /\ ClassifyIdle
  /\ HandlerIdle
  /\ run = 1
  /\ givenHistory \in ListsOf(RerunHistPool, MaxHist)
  /\ givenOrders \in ListsOf(RerunOrderPool, MaxBatch)
  /\ firstRates = << >>
  /\ firstAnalytics = NoAnalytics
  /\ rpc = "loop"
  /\ histPool = RerunHistPool
  /\ histLimit = MaxHist
  /\ RatesArgs(FirstNow, "today")
  /\ RatesLocalsInit
  /\ pc = "idle"
  /\ catalog = RerunOrderPool
  /\ adSpendByProduct = AdSpendB
  /\ shiprocketStatuses = StatusesB
  /\ predictiveRates = << >>
  /\ ProcLocalsInit

\* the next iteration of allShopifyOrders.forEach (line 328)
RerunHistStep ==
  /\ histCount < Len(givenHistory)
  /\ HistStep(givenHistory[histCount + 1])

\* allShopifyOrders.forEach is through (lines 377-389)
RerunHistFinish ==
  /\ histCount = Len(givenHistory)
  /\ HistFinish

\* processOrders is called with the rates (line 316)
CallProcessOrders ==
  /\ rpc = "done"
  /\ pc = "idle"
  /\ pc' = "loop"
  /\ predictiveRates' = rates
  /\ UNCHANGED <<catalog, adSpendByProduct, shiprocketStatuses, batch,
                 itemIdx, seenOrders, codCount, prepaidCount, codRevenue,
                 prepaidRevenue, manualReviewCount, productAttributionMap,
                 skuData, analytics, legacyAnalytics, attrVars,
                 ratesInputs, ratesVars, serverVars>>

\* the next iteration of orders.forEach (line 402)
RerunStartOrder ==
  /\ Len(batch) < Len(givenOrders)
  /\ StartOrder(givenOrders[Len(batch) + 1])

\* orders.forEach is through (lines 486-534)
RerunFinish ==
  /\ batch = givenOrders
  /\ Finish

\* the handler runs again on the same inputs: both functions are entered
\* anew and declare their locals (lines 326, 393-400); in between, a login
\* may have set the logistics token (lines 79-80)
Rerun(login) ==
  /\ pc = "done"
  /\ run < MaxRuns
  /\ run' = run + 1
  /\ firstRates' = IF run = 1 THEN rates ELSE firstRates
  /\ firstAnalytics' = IF run = 1 THEN analytics ELSE firstAnalytics
  /\ rpc' = "loop"
  /\ productRates' = NewObject(productRates)
  /\ histCount' = 0
  /\ histOrder' = NoOrder
  /\ rates' = << >>
  /\ pc' = "idle"
  /\ predictiveRates' = << >>
  /\ batch' = << >>
  /\ itemIdx' = 0
  /\ seenOrders' = NewSeenOrders(seenOrders)
  /\ codCount' = NewCount(codCount)
  /\ prepaidCount' = NewCount(prepaidCount)
  /\ codRevenue' = NewRevenue(codRevenue)
  /\ prepaidRevenue' = NewRevenue(prepaidRevenue)
  /\ manualReviewCount' = NewCount(manualReviewCount)
  /\ productAttributionMap' = NewObject(productAttributionMap)
  /\ skuData' = NewObject(skuData)
  /\ analytics' = NoAnalytics
  /\ IF login
     THEN /\ shiprocketToken' = LoginToken
          /\ shiprocketTokenExpiry' = clock + TokenLifetime
     ELSE UNCHANGED tokenVars
  /\ UNCHANGED <<catalog, adSpendByProduct, shiprocketStatuses,
                 legacyAnalytics, attrVars, ratesInputs, classifyVars,
                 configVars, clock, ticks, requestVars, givenHistory,
                 givenOrders>>

RerunNext ==
  \/ RerunHistStep
  \/ RerunHistFinish
  \/ CallProcessOrders
  \/ RerunStartOrder
  \/ NextItem
  \/ RerunFinish
  \/ \E login \in BOOLEAN : Rerun(login)

SpecRerun == RerunInit /\ [][RerunNext]_vars

-----------------------------------------------------------------------------
(* Properties of getAttributedProduct (SpecAttr).                          *)

\* the characters a product key is made of
KeyChars == {"w", "g", "x", " ", "_"}

\* a single product key: one string, neither null nor an exception
IsProductKey(v) ==
  /\ v # NoString
  /\ v # Exception
  /\ \A i \in 1..Len(v) : v[i] \in KeyChars

\* revenue of the line items from i on whose normalized name is k, in paise
RECURSIVE BucketPaise(_, _, _)
BucketPaise(lineItems, k, i) ==
  IF i > Len(lineItems) THEN 0
  ELSE (IF ProductKey(lineItems[i].name) = k
        THEN (100 * lineItems[i].price[1] + lineItems[i].price[2])
               * lineItems[i].quantity
        ELSE 0) + BucketPaise(lineItems, k, i + 1)

\* revenue of all line items from i on, in paise
RECURSIVE TotalPaise(_, _)
TotalPaise(lineItems, i) ==
  IF i > Len(lineItems) THEN 0
  ELSE (100 * lineItems[i].price[1] + lineItems[i].price[2])
         * lineItems[i].quantity + TotalPaise(lineItems, i + 1)

BucketKeys(lineItems) ==
  {ProductKey(lineItems[i].name) : i \in 1..Len(lineItems)}

\* bucket k holds strictly more than 50% of the order's item revenue
Majority(lineItems, k) ==
  2 * BucketPaise(lineItems, k, 1) > TotalPaise(lineItems, 1)

\* the landing_site is a valid URL carrying a utm_campaign parameter
CarriesUtm(order) ==
  /\ order.landing_site.present
  /\ order.landing_site.parses
  /\ order.landing_site.utm_campaign # NoString

\* the part of utm_campaign before its first '_', trimmed and lower-cased
UtmPrefix(order) ==
  toLowerCase(trim(SplitFirst(order.landing_site.utm_campaign, "_")))

\* C4: every call of getAttributedProduct ends with exactly one outcome, a
\* single product key or "no attribution" (never an exception), and a call
\* on the order of the first call returns what the first call returned,
\* whatever orders were attributed in between.
C4_TotalDeterministic ==
  calls > 0 =>
    /\ attrResult = NoString \/ IsProductKey(attrResult)
    /\ attrOrder = firstOrder => attrResult = firstResult

\* a tied two-bucket order is attributed again after a call on another order
C4_Witness ==
  /\ calls = 3
  /\ interleaved
  /\ attrOrder = firstOrder
  /\ attrOrder.line_items = <<iG45, iw45>>
  /\ attrOrder.landing_site = BadLanding
  /\ attrResult = NoString

\* C5: without UTM attribution and with two or more line items, the result
\* is bucket key K exactly when K's summed revenue is strictly more than
\* half of the order's item revenue, and None when no bucket is; 80/20 and
\* 55/45 go to the larger product, 50/50 is None.
C5_MajorityRule ==
  (/\ calls > 0
   /\ ~Truthy(extractProductFromUTM(attrOrder.landing_site))
   /\ Len(attrOrder.line_items) >= 2)
  =>
    LET li == attrOrder.line_items
    IN  /\ \A k \in BucketKeys(li) : (attrResult = k) <=> Majority(li, k)
        /\ (attrResult = NoString) <=>
             (\A k \in BucketKeys(li) : ~Majority(li, k))
        /\ li = <<iW80, iG20>> => attrResult = <<"w">>
        /\ li = <<iW55, iG45>> => attrResult = <<"w">>
        /\ li = <<iG45, iw45>> => attrResult = NoString

\* an exact 50/50 split between two products came out as None
C5_Witness ==
  /\ calls > 0
  /\ attrOrder.landing_site = NoLanding
  /\ attrOrder.line_items = <<iG45, iw45>>
  /\ attrResult = NoString

\* C6 as stated: a valid landing URL with a utm_campaign parameter always
\* decides the attribution, by the part of the parameter before its first
\* '_' (lower-cased, trimmed), and the line-item rules are not used then
\* (an empty part counted as no product at all).
C6_UtmAlwaysWins ==
  (calls > 0 /\ CarriesUtm(attrOrder)) =>
    \/ attrResult = UtmPrefix(attrOrder)
    \/ UtmPrefix(attrOrder) = << >> /\ attrResult = NoString

\* C6 amended: a valid landing URL whose utm_campaign has a non-empty part
\* before its first '_' (after trimming) decides the attribution, whatever
\* the line items are; in every other case (URL absent or malformed, no
\* utm_campaign, empty utm_campaign or empty part before '_') the result
\* is the one the line-item rules give for the order without landing URL.
C6_UtmPriority ==
  calls > 0 =>
    IF CarriesUtm(attrOrder) /\ UtmPrefix(attrOrder) # << >>
    THEN attrResult = UtmPrefix(attrOrder)
    ELSE attrResult =
           getAttributedProduct([attrOrder EXCEPT !.landing_site = NoLanding])

\* a utm_campaign " G _x" overrides an ambiguous two-item order
C6_Witness ==
  /\ calls > 0
  /\ attrOrder.landing_site = Landing(TRUE, TRUE, <<" ", "G", " ", "_", "x">>)
  /\ attrOrder.line_items = <<iG45, iw45>>
  /\ attrResult = <<"g">>

-----------------------------------------------------------------------------
(* Properties of processOrders (SpecProc).                                 *)

BatchIndex == 1..Len(batch)
BatchIds == {batch[i].id : i \in BatchIndex}
OrderOfId(id) == batch[CHOOSE i \in BatchIndex : batch[i].id = id]

\* total_price of an order in paise, 0 when it is missing
PaiseOfTotal(order) ==
  IF order.total_price = NoAmount THEN 0
  ELSE 100 * order.total_price[1] + order.total_price[2]

\* sum of total_price over the orders with the ids of S, in paise
RECURSIVE PaiseOfIds(_)
PaiseOfIds(S) ==
  IF S = {} THEN 0
  ELSE LET id == CHOOSE x \in S : TRUE
       IN  PaiseOfTotal(OrderOfId(id)) + PaiseOfIds(S \ {id})

\* sum of total_price over the batch positions of S, in paise
RECURSIVE PaiseOfPositions(_)
PaiseOfPositions(S) ==
  IF S = {} THEN 0
  ELSE LET i == CHOOSE x \in S : TRUE
       IN  PaiseOfTotal(batch[i]) + PaiseOfPositions(S \ {i})

CodIds == {id \in BatchIds : isCOD(OrderOfId(id))}
PrepaidIds == {id \in BatchIds : ~isCOD(OrderOfId(id))}

\* C1: each distinct order id of the batch counts once, as COD or as
\* prepaid, and adds its total_price once to the matching revenue, however
\* many line items it has and however often it occurs; the two counts add
\* up to the number of distinct ids.
C1_CountedOnce ==
  /\ codCount = Cardinality(CodIds)
  /\ prepaidCount = Cardinality(PrepaidIds)
  /\ codRevenue = Rat(PaiseOfIds(CodIds), 100)
  /\ prepaidRevenue = Rat(PaiseOfIds(PrepaidIds), 100)
  /\ codCount + prepaidCount = Cardinality(BatchIds)
  /\ pc = "done" =>
       /\ analytics.totalCODOrders = Cardinality(CodIds)
       /\ analytics.totalPrepaidOrders = Cardinality(PrepaidIds)
       /\ analytics.totalCODOrders + analytics.totalPrepaidOrders
            = Cardinality(BatchIds)
       /\ analytics.totalRevenue = Rat(PaiseOfIds(BatchIds), 100)

\* a COD order with three line items occurred twice around a prepaid order
C1_Witness ==
  /\ pc = "done"
  /\ Len(batch) = 3
  /\ batch[1] = batch[3]
  /\ batch[2].id # batch[1].id
  /\ Len(batch[1].line_items) = 3
  /\ isCOD(batch[1])
  /\ ~isCOD(batch[2])
  /\ analytics.totalCODOrders = 1
  /\ analytics.totalPrepaidOrders = 1

\* between two orders, and at the end
AtOrderBoundary == pc \in {"loop", "done", "legacy-done"}

\* sums over all SKU buckets
SkuTotalRevenue ==
  SumOver([k \in DOMAIN skuData |-> skuData[k].totalRevenue], DOMAIN skuData)
SkuCodRevenue ==
  SumOver([k \in DOMAIN skuData |-> skuData[k].codRevenue], DOMAIN skuData)
SkuPrepaidRevenue ==
  SumOver([k \in DOMAIN skuData |-> skuData[k].prepaidRevenue],
          DOMAIN skuData)

\* the order has line items whose subtotals do not sum to zero
HasItemRevenue(order) == TotalPaise(order.line_items, 1) > 0

\* the COD order of total 500 with items 300 x 1 and 200 x 1 under two SKUs
IsExampleOrder(order) ==
  /\ order.total_price = <<500, 0>>
  /\ order.line_items = <<iW300, iG200>>
  /\ isCOD(order)

ExampleSplit ==
  (Len(batch) = 1 /\ IsExampleOrder(batch[1]) /\ AtOrderBoundary) =>
    /\ DOMAIN skuData = {<<"S1">>, <<"S2">>}
    /\ skuData[<<"S1">>].codRevenue = Num(300)
    /\ skuData[<<"S2">>].codRevenue = Num(200)
    /\ skuData[<<"S1">>].prepaidRevenue = Zero
    /\ skuData[<<"S2">>].prepaidRevenue = Zero

\* C2 as stated: the SKU revenue added for every processed order sums to
\* the order's total_price, also for orders without line items and orders
\* whose item subtotals sum to zero; so after every order the SKU buckets
\* together hold the totals of all orders processed so far.
C2_AllocatesEveryOrder ==
  AtOrderBoundary =>
    SkuTotalRevenue = Rat(PaiseOfPositions(BatchIndex), 100)

\* C2 amended: the SKU revenue added for a processed order sums to the
\* order's total_price when its item subtotals sum to a non-zero amount
\* (line items sharing a SKU included), and to 0 when it has no line items
\* or its subtotals sum to zero; the COD order of total 500 with items 300
\* and 200 gives COD revenue 300 and 200.
C2_AllocatesItemRevenue ==
  /\ AtOrderBoundary =>
       /\ SkuTotalRevenue =
            Rat(PaiseOfPositions({i \in BatchIndex :
                                    HasItemRevenue(batch[i])}), 100)
       /\ SkuCodRevenue =
            Rat(PaiseOfPositions({i \in BatchIndex :
                                    /\ HasItemRevenue(batch[i])
                                    /\ isCOD(batch[i])}), 100)
       /\ SkuPrepaidRevenue =
            Rat(PaiseOfPositions({i \in BatchIndex :
                                    /\ HasItemRevenue(batch[i])
                                    /\ ~isCOD(batch[i])}), 100)
  /\ ExampleSplit

\* the example order, followed by an order of total 100 with two of its
\* three line items under SKU S1
C2_Witness ==
  /\ pc = "done"
  /\ Len(batch) = 2
  /\ IsExampleOrder(batch[1])
  /\ batch[2].line_items = <<iW55, iG45, iw45>>
  /\ SkuTotalRevenue = Num(600)
  /\ skuData[<<"S1">>].totalRevenue = RAdd(Num(300), Rat(10000, 145))

\* C3: in every SKU bucket, at every point of the aggregation and in the
\* result (of processOrders and of its earlier variant), codRevenue +
\* prepaidRevenue = totalRevenue.
C3_RevenueSplit ==
  /\ \A k \in DOMAIN legacyAnalytics.skus :
       RAdd(legacyAnalytics.skus[k].codRevenue,
            legacyAnalytics.skus[k].prepaidRevenue)
         = legacyAnalytics.skus[k].totalRevenue
  /\ \A k \in DOMAIN skuData :
       RAdd(skuData[k].codRevenue, skuData[k].prepaidRevenue)
         = skuData[k].totalRevenue
  /\ \A k \in DOMAIN analytics.skus :
       RAdd(analytics.skus[k].codRevenue, analytics.skus[k].prepaidRevenue)
         = analytics.skus[k].totalRevenue

\* a SKU of the result has both COD and prepaid revenue
C3_Witness ==
  /\ pc = "done"
  /\ \E k \in DOMAIN analytics.skus :
       /\ RGt(analytics.skus[k].codRevenue, Zero)
       /\ RGt(analytics.skus[k].prepaidRevenue, Zero)

\* positions of the batch by attribution
Unattributed == {i \in BatchIndex : getAttributedProduct(batch[i]) = NoString}
NoProduct == {i \in BatchIndex : ~Truthy(getAttributedProduct(batch[i]))}
AttributedTo(p) == {i \in BatchIndex : getAttributedProduct(batch[i]) = p}

RECURSIVE AttributedOrders(_)
AttributedOrders(S) ==
  IF S = {} THEN 0
  ELSE LET p == CHOOSE x \in S : TRUE
       IN  productAttributionMap[p].orders + AttributedOrders(S \ {p})

\* C7 as stated: an order raises manualReviewCount by 1 when its
\* attribution is None, and one product's attributed-order count otherwise.
C7_NoneIsReviewed ==
  /\ manualReviewCount = Cardinality(Unattributed)
  /\ \A i \in BatchIndex \ Unattributed :
       getAttributedProduct(batch[i]) \in DOMAIN productAttributionMap

\* C7 amended: an order raises manualReviewCount by 1 when its attribution
\* is None or the empty product key, and one product's attributed-order
\* count by 1 otherwise; manualReviewCount plus all attributed-order counts
\* is the number of orders; an unattributed order is still counted as COD
\* or prepaid and still gets its SKU buckets, and the batch runs to its end.
C7_ReviewOrAttributed ==
  /\ manualReviewCount = Cardinality(NoProduct)
  /\ DOMAIN productAttributionMap =
       {getAttributedProduct(batch[i]) : i \in BatchIndex \ NoProduct}
  /\ \A p \in DOMAIN productAttributionMap :
       productAttributionMap[p].orders = Cardinality(AttributedTo(p))
  /\ manualReviewCount + AttributedOrders(DOMAIN productAttributionMap)
       = Len(batch)
  /\ \A i \in NoProduct : batch[i].id \in seenOrders
  /\ AtOrderBoundary =>
       \A i \in NoProduct : \A j \in 1..Len(batch[i].line_items) :
         SkuOf(batch[i].line_items[j]) \in DOMAIN skuData
  /\ pc = "done" =>
       /\ analytics.manualReviewCount = Cardinality(NoProduct)
       /\ analytics.totalOrders = Len(batch)

\* a 50/50 order went to manual review between two attributed orders and
\* left its revenue in the SKU buckets
C7_Witness ==
  /\ pc = "done"
  /\ Len(batch) = 3
  /\ batch[2].line_items = <<iG45, iw45>>
  /\ getAttributedProduct(batch[2]) = NoString
  /\ analytics.manualReviewCount = 1
  /\ analytics.totalOrders = 3
  /\ analytics.totalPrepaidOrders = 1
  /\ RGt(skuData[<<"S2">>].prepaidRevenue, Zero)

-----------------------------------------------------------------------------
(* Properties of calculatePredictiveRates (SpecRates, SpecCohort).         *)

\* C8: for every product of the result, predictiveRTO is 100 x
\* rtoNotDelivered / rtoTotal when rtoTotal > 0 and 0 otherwise,
\* predictiveCancel is 100 x cancelCancelled / cancelTotal when
\* cancelTotal > 0 and 0 otherwise, never NaN; rtoTotal = 10 with
\* rtoNotDelivered = 3 gives exactly 30.
C8_PredictiveRates ==
  rpc = "done" =>
    /\ DOMAIN rates = DOMAIN productRates
    /\ \A product \in DOMAIN rates :
         LET data == productRates[product]
         IN  /\ ~IsNaN(rates[product].predictiveRTO)
             /\ ~IsNaN(rates[product].predictiveCancel)
             /\ rates[product].predictiveRTO =
                  IF data.rtoTotal > 0
                  THEN Rat(100 * data.rtoNotDelivered, data.rtoTotal)
                  ELSE Zero
             /\ rates[product].predictiveCancel =
                  IF data.cancelTotal > 0
                  THEN Rat(100 * data.cancelCancelled, data.cancelTotal)
                  ELSE Zero
             /\ (data.rtoTotal = 10 /\ data.rtoNotDelivered = 3) =>
                  rates[product].predictiveRTO = Num(30)

\* a cohort with rtoTotal = 10, rtoNotDelivered = 3 and no order in the
\* cancellation window
C8_Witness ==
  /\ rpc = "done"
  /\ <<"w">> \in DOMAIN productRates
  /\ productRates[<<"w">>] = [rtoTotal |-> 10, rtoNotDelivered |-> 3,
                              cancelTotal |-> 0, cancelCancelled |-> 0]
  /\ rates[<<"w">>] = [predictiveRTO |-> Num(30), predictiveCancel |-> Zero]

\* the products: the non-empty keys the historical orders are attributed to
Products ==
  {k \in {getAttributedProduct(o) : o \in histPool} : Truthy(k)}

\* a counter of a product, 0 while the product has no counters
CounterOf(pr, product, field) ==
  IF product \in DOMAIN pr THEN pr[product][field] ELSE 0

HasShipmentRecord(order) == OrderNum(order) \in DOMAIN shiprocketMap
ShipmentOf(order) == shiprocketMap[OrderNum(order)]

\* the order is attributed to the product, is COD, and its shipment record
\* has a real pickup timestamp of a day in [target - 14, target - 7]
RtoCounted(order, product) ==
  /\ getAttributedProduct(order) = product
  /\ isCOD(order)
  /\ HasShipmentRecord(order)
  /\ ShipmentOf(order).pickupTimestamp # NoPickup
  /\ ShipmentOf(order).pickupTimestamp # SentinelPickup
  /\ targetDate - 14 <= ShipmentOf(order).pickupTimestamp[1]
  /\ ShipmentOf(order).pickupTimestamp[1] <= targetDate - 7

ShipmentDelivered(order) == ShipmentOf(order).status \in {6, 7}

\* the order is attributed to the product and its creation day in
\* Asia/Kolkata is in [target - 7, target - 1]
CreatedInCancelWindow(order) ==
  /\ targetDate - 7 <= ISTDate(order.created_at)
  /\ ISTDate(order.created_at) <= targetDate - 1

CancelCounted(order, product) ==
  /\ getAttributedProduct(order) = product
  /\ CreatedInCancelWindow(order)

ShipmentCancelled(order) ==
  /\ HasShipmentRecord(order)
  /\ \/ ShipmentOf(order).mainStatus \in {StrCanceled, StrCancelled}
     \/ ShipmentOf(order).status = 8

\* the forEach has gone through one more order
OneMoreOrder == histCount' = histCount + 1

Plus(cond) == IF cond THEN 1 ELSE 0

\* C9: an order raises a product's rtoTotal exactly when it is attributed
\* to the product, is COD and has a shipment record with a real pickup
\* timestamp of a day in [target - 14, target - 7]; it raises
\* rtoNotDelivered exactly when it is so counted and not delivered;
\* rtoNotDelivered <= rtoTotal throughout.
C9_RtoContribution ==
  /\ [](\A product \in DOMAIN productRates :
          productRates[product].rtoNotDelivered
            <= productRates[product].rtoTotal)
  /\ [][OneMoreOrder =>
          \A product \in Products :
            /\ CounterOf(productRates', product, "rtoTotal") =
                 CounterOf(productRates, product, "rtoTotal")
                   + Plus(RtoCounted(histOrder', product))
            /\ CounterOf(productRates', product, "rtoNotDelivered") =
                 CounterOf(productRates, product, "rtoNotDelivered")
                   + Plus(/\ RtoCounted(histOrder', product)
                          /\ ~ShipmentDelivered(histOrder'))]_vars

\* a COD order picked up on day target - 7 and delivered was counted
C9_Witness ==
  /\ targetDate = 100
  /\ histCount = 1
  /\ histOrder.name = <<"#", "2">>
  /\ isCOD(histOrder)
  /\ <<"w">> \in DOMAIN productRates
  /\ productRates[<<"w">>].rtoTotal = 1
  /\ productRates[<<"w">>].rtoNotDelivered = 0

RECURSIVE CancelTotalOf(_, _)
CancelTotalOf(pr, S) ==
  IF S = {} THEN 0
  ELSE LET product == CHOOSE x \in S : TRUE
       IN  pr[product].cancelTotal + CancelTotalOf(pr, S \ {product})

-----------------------------------------------------------------------------
(* Properties of the SKU buckets of processOrders (SpecSku).               *)

\* the line items of batch position i that fall under SKU k
ItemsUnder(i, k) ==
  {j \in 1..Len(batch[i].line_items) : SkuOf(batch[i].line_items[j]) = k}

\* the distinct ids of the COD (cod = TRUE) or prepaid (cod = FALSE) orders
\* of the batch with at least one line item under SKU k
IdsUnder(k, cod) ==
  {batch[i].id : i \in {x \in BatchIndex : /\ isCOD(batch[x]) = cod
                                           /\ ItemsUnder(x, k) # {}}}

\* price x quantity of a line item, in paise
LinePaise(item) == (100 * item.price[1] + item.price[2]) * item.quantity

\* the share of the order total a line item gets
ShareOf(order, item) ==
  IF TotalPaise(order.line_items, 1) = 0 THEN Zero
  ELSE Rat(PaiseOfTotal(order) * LinePaise(item),
           100 * TotalPaise(order.line_items, 1))

\* the shares of the line items <<i, j>> of S
RECURSIVE SharesOf(_)
SharesOf(S) ==
  IF S = {} THEN Zero
  ELSE LET e == CHOOSE x \in S : TRUE
       IN  RAdd(ShareOf(batch[e[1]], batch[e[1]].line_items[e[2]]),
                SharesOf(S \ {e}))

\* every line item of the batch under SKU k, one entry per occurrence
LinesUnder(k) ==
  UNION {{<<i, j>> : j \in ItemsUnder(i, k)} : i \in BatchIndex}

\* C11: in every SKU record codOrders is the number of distinct COD order
\* ids with a line item under the SKU and prepaidOrders the number of
\* distinct prepaid ones, the revenue is accumulated for every line item,
\* and totalOrders = codOrders + prepaidOrders.
C11_PerOrderCounts ==
  AtOrderBoundary =>
    /\ \A k \in DOMAIN skuData :
         /\ skuData[k].codOrders = Cardinality(IdsUnder(k, TRUE))
         /\ skuData[k].prepaidOrders = Cardinality(IdsUnder(k, FALSE))
         /\ skuData[k].totalRevenue = SharesOf(LinesUnder(k))
    /\ pc = "done" =>
         \A k \in DOMAIN analytics.skus :
           /\ analytics.skus[k].codOrders = Cardinality(IdsUnder(k, TRUE))
           /\ analytics.skus[k].prepaidOrders =
                Cardinality(IdsUnder(k, FALSE))
           /\ analytics.skus[k].totalOrders =
                analytics.skus[k].codOrders + analytics.skus[k].prepaidOrders
           /\ analytics.skus[k].totalRevenue = SharesOf(LinesUnder(k))

\* a COD order with the two line items 55 x 1 and 22.50 x 2 under SKU S1
\* raised codOrders by 1 and the revenue by its whole total
C11_Witness ==
  /\ pc = "done"
  /\ Len(batch) = 1
  /\ isCOD(batch[1])
  /\ batch[1].line_items = <<iW55, iw45>>
  /\ analytics.skus[<<"S1">>].codOrders = 1
  /\ analytics.skus[<<"S1">>].totalOrders = 1
  /\ analytics.skus[<<"S1">>].totalRevenue = Num(100)

\* the four shipment outcome counters of a SKU record
OutcomeFields ==
  {"deliveredOrders", "rtoOrders", "cancelledOrders", "inTransitOrders"}

\* a counter of the bucket of SKU k, 0 while there is no bucket
BucketCount(sd, k, field) == IF k \in DOMAIN sd THEN sd[k][field] ELSE 0

Outcomes(sd, k) ==
  BucketCount(sd, k, "deliveredOrders") + BucketCount(sd, k, "rtoOrders")
    + BucketCount(sd, k, "cancelledOrders")
    + BucketCount(sd, k, "inTransitOrders")

\* the line item the inner forEach is at is the first line item under its
\* SKU of an order id the batch has not had under that SKU
FirstUnderSku ==
  LET order == batch[Len(batch)]
      k == SkuOf(order.line_items[itemIdx])
  IN  /\ \A j \in 1..(itemIdx - 1) : SkuOf(order.line_items[j]) # k
      /\ \A i \in 1..(Len(batch) - 1) :
           batch[i].id = order.id => ItemsUnder(i, k) = {}

\* C12: a line item raises at most one outcome counter of its SKU bucket,
\* by 1, and only as the first line item of its order id and payment class
\* under that SKU; no other bucket changes; an order whose status is
\* missing from the status map raises none; hence delivered + rto +
\* cancelled + inTransit <= codOrders + prepaidOrders in every record.
C12_OutcomeOncePerOrder ==
  /\ [](\A k \in DOMAIN skuData :
          Outcomes(skuData, k)
            <= skuData[k].codOrders + skuData[k].prepaidOrders)
  /\ [](pc = "done" =>
          \A k \in DOMAIN analytics.skus :
            Outcomes(analytics.skus, k) <= analytics.skus[k].totalOrders)
  /\ [][pc = "items" =>
          LET order == batch[Len(batch)]
              sku == SkuOf(order.line_items[itemIdx])
          IN  /\ \A k \in DOMAIN skuData' :
                   /\ \A f \in OutcomeFields :
                        BucketCount(skuData', k, f)
                          >= BucketCount(skuData, k, f)
                   /\ Outcomes(skuData', k) <= Outcomes(skuData, k) + 1
                   /\ k # sku =>
                        Outcomes(skuData', k) = Outcomes(skuData, k)
              /\ ~FirstUnderSku =>
                   Outcomes(skuData', sku) = Outcomes(skuData, sku)
              /\ OrderNumber(order) \notin DOMAIN shiprocketStatuses =>
                   Outcomes(skuData', sku) = Outcomes(skuData, sku)]_vars

\* a delivered COD order with two line items under SKU S1, then an order
\* without a status: one outcome for two counted orders
C12_Witness ==
  /\ pc = "done"
  /\ Len(batch) = 2
  /\ isCOD(batch[1])
  /\ batch[1].line_items = <<iW55, iw45>>
  /\ shiprocketStatuses = StatusesA
  /\ batch[2].id = 3
  /\ analytics.skus[<<"S1">>].totalOrders = 2
  /\ analytics.skus[<<"S1">>].deliveredOrders = 1
  /\ Outcomes(analytics.skus, <<"S1">>) = 1

\* campaign is a prefix of key
IsPrefixOf(campaign, key) ==
  /\ Len(campaign) <= Len(key)
  /\ SubSeq(key, 1, Len(campaign)) = campaign

\* the spend of the campaigns of S
RECURSIVE SpendOf(_)
SpendOf(S) ==
  IF S = {} THEN Zero
  ELSE LET c == CHOOSE x \in S : TRUE
       IN  RAdd(adSpendByProduct[c], SpendOf(S \ {c}))

\* the batch orders attributed to the product key
OrdersAttributedTo(key) ==
  Cardinality({i \in BatchIndex :
                 /\ Truthy(getAttributedProduct(batch[i]))
                 /\ getAttributedProduct(batch[i]) = key})

\* C13: adSpend of a SKU record is the summed spend of every campaign
\* whose name is a prefix of the SKU's normalized product name, cac is
\* adSpend / attributedOrders when attributedOrders > 0 and 0 otherwise,
\* attributedOrders the number of batch orders attributed to that name.
C13_AdSpendAndCac ==
  pc = "done" =>
    \A k \in DOMAIN analytics.skus :
      LET out == analytics.skus[k]
          key == ProductKey(out.productName)
          matching == {c \in DOMAIN adSpendByProduct : IsPrefixOf(c, key)}
      IN  /\ out.adSpend = SpendOf(matching)
          /\ matching = {} => out.adSpend = Zero
          /\ out.attributedOrders = OrdersAttributedTo(key)
          /\ out.cac = IF out.attributedOrders > 0
                       THEN RDiv(out.adSpend, Num(out.attributedOrders))
                       ELSE Zero
          /\ ~IsNaN(out.cac)

\* SKU S3 of product "wx" got the spend of the campaigns "w" and "wx", and
\* no attributed order; SKU S1 of product "w" the spend of "w" over two
\* attributed orders
C13_Witness ==
  /\ pc = "done"
  /\ adSpendByProduct = AdSpendB
  /\ <<"S3">> \in DOMAIN analytics.skus
  /\ analytics.skus[<<"S3">>].adSpend = Num(140)
  /\ analytics.skus[<<"S3">>].attributedOrders = 0
  /\ analytics.skus[<<"S3">>].cac = Zero
  /\ analytics.skus[<<"S1">>].adSpend = Num(100)
  /\ analytics.skus[<<"S1">>].attributedOrders = 2
  /\ analytics.skus[<<"S1">>].cac = Num(50)

-----------------------------------------------------------------------------
(* Properties of the two readings of a shipment record (SpecClassify).     *)

CoarseStatuses ==
  {StatusCancelled, StatusDelivered, StatusRto, StatusInTransit,
   StatusPending}

\* C19: every shipment record gets exactly one coarse status, and
\* calculatePredictiveRates treats the record as delivered exactly when
\* that status is 'delivered' and as cancelled exactly when it is
\* 'cancelled'.
C19_SameClassification ==
  cpc = "done" =>
    /\ deliveryStatus \in CoarseStatuses
    /\ rateDelivered <=> (deliveryStatus = StatusDelivered)
    /\ rateCancelled <=> (deliveryStatus = StatusCancelled)

-----------------------------------------------------------------------------
(* Properties of the analytics request (SpecRequest, SpecRequestFair).     *)

\* the feed gave the request nothing: it is not configured, no logistics
\* token could be had for it, or its data request failed
FeedDown(f) ==
  IF f = "ad"
  THEN ~metaConfigured \/ world.get[f] = "fail"
  ELSE \/ ~credsConfigured
       \/ f \in logins /\ world.login[f] = "fail"
       \/ world.get[f] = "fail"

\* what the aggregation gets from the feed
FeedValue(f) == IF FeedDown(f) THEN << >> ELSE DataOf(f)

\* the secondary fetches of this request were started and have answered
FeedsAnswered == hpc = "responded" /\ started = Feeds

\* C14: a secondary feed that fails, is not configured or gets no token
\* resolves with an empty mapping or list and does not reject, and the
\* request answers success with the analytics computed with that feed
\* empty: no ad spend, no shipment outcome, no RTO or cancellation rate;
\* for any subset of the three feeds.
C14_FeedFailureRecovered ==
  /\ \A f \in Feeds :
       fetched[f].stage = "settled" =>
         /\ ~fetched[f].rejected
         /\ FeedDown(f) => fetched[f].result = << >>
  /\ FeedsAnswered =>
       /\ response.kind = "success"
       /\ response.analytics.totalOrders
            = Len(TodaysOrders(shopifyOrders, reqTarget, 1))
       /\ response.analytics =
            AnalyticsOf(shopifyOrders, reqTarget,
                        IF FeedDown("ad") THEN << >>
                        ELSE fetched["ad"].result,
                        IF FeedDown("status") THEN << >>
                        ELSE fetched["status"].result,
                        IF FeedDown("list") THEN << >>
                        ELSE fetched["list"].result)
       /\ \A k \in DOMAIN response.analytics.skus :
            LET out == response.analytics.skus[k]
            IN  /\ FeedDown("ad") => out.adSpend = Zero /\ out.cac = Zero
                /\ FeedDown("status") =>
                     Outcomes(response.analytics.skus, k) = 0
                /\ FeedDown("list") =>
                     /\ out.predictiveRTO = Zero
                     /\ out.predictiveCancel = Zero

\* the ad request failed, no token could be had for the status fetch and
\* the 30-day list request failed: success, with the two orders of the day
C14_Witness ==
  /\ FeedsAnswered
  /\ metaConfigured
  /\ world.get["ad"] = "fail"
  /\ "status" \in logins
  /\ world.login["status"] = "fail"
  /\ world.login["list"] = "ok"
  /\ world.get["list"] = "fail"
  /\ response.kind = "success"
  /\ response.analytics.totalOrders = 2
  /\ response.analytics.skus[<<"S1">>].totalOrders = 2
  /\ response.analytics.skus[<<"S1">>].adSpend = Zero

\* C15: a request sends at most one response, a success with a complete
\* analytics object built from the order feed or a failure with an error
\* description and no analytics; without commerce access token, or when
\* the order fetch fails, it is the failure, and no secondary fetch and no
\* aggregation is started.
C15_SuccessOrFailure ==
  /\ responses <= 1
  /\ hpc = "responded" <=> responses = 1
  /\ hpc = "responded" <=> response.kind \in {"success", "failure"}
  /\ response.kind = "success" =>
       /\ response.error = ""
       /\ aggregated
       /\ shopifyOrders = PrimaryOrders
       /\ response.analytics.totalOrders
            = Len(TodaysOrders(PrimaryOrders, reqTarget, 1))
  /\ response.kind = "failure" =>
       /\ response.error # ""
       /\ response.analytics = NoAnalytics
  /\ hpc = "primary" => started = {} /\ ~aggregated
  /\ (requests > 0 /\ hpc # "idle"
        /\ (accessToken = NoString \/ world.primary = "fail")) =>
       /\ started = {}
       /\ logins = {}
       /\ ~aggregated
       /\ shopifyOrders = << >>
       /\ hpc = "responded" => response.kind = "failure"

\* the order fetch of an authenticated server failed
C15_Witness ==
  /\ hpc = "responded"
  /\ accessToken = ShopifyToken
  /\ world.primary = "fail"
  /\ response.kind = "failure"
  /\ started = {}

\* the feed's requests are all answered with data
FeedHealthy(f) ==
  /\ world.get[f] = "ok"
  /\ f \in TokenFeeds => world.login[f] = "ok"

\* the feeds that fail or never answer in this request
TroubledFeeds == {f \in Feeds : ~FeedHealthy(f)}

\* the secondary fetches are under way and exactly one feed is in trouble
OneFeedInTrouble == hpc = "fetching" /\ Cardinality(TroubledFeeds) = 1

\* the response is sent and the fetches of the healthy feeds are settled
RespondedDespiteTrouble ==
  /\ hpc = "responded"
  /\ \A g \in Feeds \ TroubledFeeds : fetched[g].stage = "settled"

\* C16: if one of the three secondary feeds fails or never answers, the
\* other two fetches still complete and the request still eventually
\* produces its response.
C16_OneFeedNeverBlocks == OneFeedInTrouble ~> RespondedDespiteTrouble

\* the analytics the feeds of this request determine
ExpectedAnalytics ==
  AnalyticsOf(PrimaryOrders, reqTarget, FeedValue("ad"),
              FeedValue("status"), FeedValue("list"))

\* C17: the aggregation starts only after all three fetches have settled,
\* and the analytics are what the answers of the feeds determine, whatever
\* the order the fetches were answered in.
C17_JoinBeforeAggregation ==
  /\ aggregated => \A f \in Feeds : fetched[f].stage = "settled"
  /\ hpc = "fetching" => ~aggregated /\ response.kind = "none"
  /\ response.kind = "success" =>
       /\ \A f \in Feeds : fetched[f].stage = "settled"
       /\ response.analytics = ExpectedAnalytics

\* the 30-day list, last of the three, answered first, after two logins;
\* the analytics have the ad spend, the delivered order and the rates
C17_Witness ==
  /\ hpc = "responded"
  /\ response.kind = "success"
  /\ firstSettled = "list"
  /\ logins = TokenFeeds
  /\ \A f \in Feeds : ~FeedDown(f)
  /\ reqTarget = 100
  /\ response.analytics.skus[<<"S1">>].adSpend = Rat(241, 2)
  /\ response.analytics.skus[<<"S1">>].deliveredOrders = 1
  /\ response.analytics.skus[<<"S1">>].predictiveRTO = Num(100)
  /\ response.analytics.skus[<<"S1">>].predictiveCancel = Num(100)

\* the handler calls the three fetch functions in this step
CallsMade == hpc = "primary" /\ hpc' = "fetching"

\* C20: getShiprocketToken returns the cached token without a login
\* request only while the time is before shiprocketTokenExpiry; a set
\* token has its expiry set, both written in the step of a successful
\* login, the expiry 10 days after it; a call with missing credentials or
\* a failed login returns no token and leaves both variables unchanged.
C20_TokenCache ==
  /\ [](Truthy(shiprocketToken) <=> shiprocketTokenExpiry # NoExpiry)
  /\ [][CallsMade =>
          \A f \in TokenFeeds :
            /\ fetched'[f].stage = "get" <=>
                 Truthy(shiprocketToken) /\ clock < shiprocketTokenExpiry
            /\ fetched'[f].stage = "login" <=> f \in logins'
            /\ f \in logins' =>
                 credsConfigured /\ ~(clock < shiprocketTokenExpiry)
            /\ ~credsConfigured =>
                 /\ fetched'[f] = Resolved(<< >>)
                 /\ UNCHANGED tokenVars]_vars
  /\ [][\A f \in TokenFeeds :
          fetched[f].stage = "login" /\ fetched'[f].stage # "login" =>
            IF world.login[f] = "ok"
            THEN /\ Truthy(shiprocketToken')
                 /\ shiprocketTokenExpiry' = clock + 10 * HalfHoursPerDay
                 /\ fetched'[f].stage = "get"
            ELSE /\ UNCHANGED tokenVars
                 /\ fetched'[f] = Resolved(<< >>)]_vars
  /\ [][tokenVars' # tokenVars =>
          \E f \in TokenFeeds :
            /\ fetched[f].stage = "login"
            /\ fetched'[f].stage = "get"]_vars

\* a second request half an hour before the token of the first expires:
\* both fetches go on with the cached token, no login is sent
C20_Witness ==
  /\ requests = 2
  /\ hpc = "fetching"
  /\ logins = {}
  /\ fetched["status"].stage = "get"
  /\ fetched["list"].stage = "get"
  /\ Truthy(shiprocketToken)
  /\ clock = shiprocketTokenExpiry - 1

-----------------------------------------------------------------------------
(* Properties of the repeated analytics computation (SpecRerun).           *)

\* what the two functions are given
RerunInputs ==
  <<givenHistory, givenOrders, catalog, adSpendByProduct,
    shiprocketStatuses, histPool, histLimit, targetDate, shiprocketMap,
    rtoStart, rtoEnd, cancelStart, cancelEnd>>

\* the state of the server apart from the logistics token
ServerRest == <<attrVars, classifyVars, configVars, clock, ticks, requestVars>>

\* the distinct ids of the given orders
GivenIds == {givenOrders[i].id : i \in 1..Len(givenOrders)}

\* C18: each call creates its seen-order set, SKU buckets, attribution
\* counts and rate counters fresh, and both functions leave the orders
\* and maps they are given unchanged, so the computation run again on the
\* same inputs returns the rates and the analytics of the first run, every
\* order counted once in each run; between runs only the token variables
\* may differ.
C18_NothingSurvives ==
  /\ [](rpc = "loop" /\ histCount = 0 => productRates = << >>)
  /\ [](pc \in {"idle", "loop"} /\ batch = << >> =>
          /\ seenOrders = {}
          /\ skuData = << >>
          /\ productAttributionMap = << >>
          /\ codCount = 0 /\ prepaidCount = 0 /\ manualReviewCount = 0
          /\ codRevenue = Zero /\ prepaidRevenue = Zero)
  /\ [](run > 1 /\ rpc = "done" => rates = firstRates)
  /\ [](run > 1 /\ pc = "done" => analytics = firstAnalytics)
  /\ [](pc = "done" =>
          /\ seenOrders = GivenIds
          /\ analytics.totalOrders = Len(givenOrders)
          /\ analytics.totalCODOrders + analytics.totalPrepaidOrders
               = Cardinality(GivenIds))
  /\ [][UNCHANGED RerunInputs]_vars
  /\ [][run' # run =>
          /\ UNCHANGED ServerRest
          /\ rpc' = "loop" /\ pc' = "idle"
          /\ productRates' = << >> /\ histCount' = 0 /\ rates' = << >>
          /\ batch' = << >> /\ seenOrders' = {} /\ skuData' = << >>
          /\ productAttributionMap' = << >>
          /\ codCount' = 0 /\ prepaidCount' = 0
          /\ manualReviewCount' = 0
          /\ codRevenue' = Zero /\ prepaidRevenue' = Zero
          /\ analytics' = NoAnalytics /\ predictiveRates' = << >>]_vars

\* the second run is through, after a login in between: three orders, one
\* of them given twice, and a history with an order in RTO
C18_Witness ==
  /\ run = 2
  /\ pc = "done"
  /\ shiprocketToken = LoginToken
  /\ Len(givenOrders) = 3
  /\ Cardinality(GivenIds) = 2
  /\ analytics = firstAnalytics
  /\ analytics.totalCODOrders = 1
  /\ analytics.totalPrepaidOrders = 1
  /\ <<"w">> \in DOMAIN firstRates
  /\ firstRates[<<"w">>].predictiveRTO # Zero
  /\ <<"S1">> \in DOMAIN analytics.skus
  /\ analytics.skus[<<"S1">>].predictiveRTO = firstRates[<<"w">>].predictiveRTO

=============================================================================
